---- MODULE Spec2Model ----
(***************************************************************************)
(* Model of the conversational tool-orchestration pipeline of the          *)
(* neura-ruet-app backend: the intent gate, the per-tool pipelines          *)
(* (find_materials, view_notices, check_marks, generate_marksheet) and the  *)
(* scoped retrieval they run against the content tables.                    *)
(*                                                                         *)
(* Python strings are sequences of one-character strings, so that the       *)
(* string functions of the code (strip, upper, lower, replace, "in") are    *)
(* computed and not assumed.  Python None is the value None.                *)
(***************************************************************************)
EXTENDS Integers, Sequences, FiniteSets, TLC

VARIABLES
    pc,         \* position of the turn's control flow
    path,       \* which entry point serves the turn
    actor,      \* the authenticated user's profile row (student, CR or teacher)
    userText,   \* the content of the incoming message
    toolName,   \* tool_name of the request payload
    history,    \* role-tagged last messages of the room
    gate,       \* output of the gate's completion; ok: a decision came of it
    raw,        \* text returned by the extraction completion
    decision,   \* the parsed / validated extraction object
    queries,    \* content-table queries executed in this turn, in order
    llmCalls,   \* completions requested in this turn, in order
    handlers,   \* tool handlers invoked in this turn, in order
    stages,     \* pipeline stages entered in this turn, in order
    result,     \* outcome of the turn
    db,         \* the persisted content tables
    prev,       \* summary of the previous turn over the same tables
    assistant_msg,  \* the assistant message the endpoint stored for the turn
    now,        \* datetime.utcnow() of the server, in seconds
    files,      \* the documents in assets/pdf: file name -> the run that wrote it
    rooms,      \* the chat_rooms table
    msgTable,   \* the messages table, in insertion order
    requests    \* the endpoint requests in flight, by request id

\* the stores and the requests of the endpoints outside the turn's pipeline
storeVars == <<now, files, rooms, msgTable, requests>>

vars == <<pc, path, actor, userText, toolName, history, gate, raw, decision,
          queries, llmCalls, handlers, stages, result, db, prev, assistant_msg, storeVars>>

----------------------------------------------------------------------------
(* Python values and string functions                                      *)

None == <<"<None>">>

Upper26 == <<"A","B","C","D","E","F","G","H","I","J","K","L","M",
             "N","O","P","Q","R","S","T","U","V","W","X","Y","Z">>
Lower26 == <<"a","b","c","d","e","f","g","h","i","j","k","l","m",
             "n","o","p","q","r","s","t","u","v","w","x","y","z">>
Digits10 == <<"0","1","2","3","4","5","6","7","8","9">>

Range(s) == {s[i] : i \in DOMAIN s}

IndexIn(c, tbl) == CHOOSE i \in DOMAIN tbl : tbl[i] = c

LowerCh(c) == IF c \in Range(Upper26) THEN Lower26[IndexIn(c, Upper26)] ELSE c

UpperCh(c) == IF c \in Range(Lower26) THEN Upper26[IndexIn(c, Lower26)] ELSE c

PyLower(s) == [i \in DOMAIN s |-> LowerCh(s[i])]

PyUpper(s) == [i \in DOMAIN s |-> UpperCh(s[i])]

IsSpaceCh(c) == c \in {" ", "\t", "\n"}

RECURSIVE LStrip(_)
LStrip(s) == IF s # <<>> /\ IsSpaceCh(Head(s)) THEN LStrip(Tail(s)) ELSE s

RECURSIVE RStrip(_)
RStrip(s) ==
    IF s # <<>> /\ IsSpaceCh(s[Len(s)]) THEN RStrip(SubSeq(s, 1, Len(s) - 1)) ELSE s

PyStrip(s) == RStrip(LStrip(s))

\* k in s
PyContains(s, k) ==
    \E i \in 0..(Len(s) - Len(k)) : SubSeq(s, i + 1, i + Len(k)) = k

\* s.replace(a, b) for a one-character a and a string b
RECURSIVE PyReplaceCh(_, _, _)
PyReplaceCh(s, a, b) ==
    IF s = <<>> THEN <<>>
    ELSE (IF Head(s) = a THEN b ELSE <<Head(s)>>) \o PyReplaceCh(Tail(s), a, b)

PyIsAlpha(s) ==
    s # <<>> /\ \A i \in DOMAIN s : s[i] \in Range(Upper26) \cup Range(Lower26)

PyIsDigit(s) == s # <<>> /\ \A i \in DOMAIN s : s[i] \in Range(Digits10)

IsAlnumCh(c) == c \in Range(Upper26) \cup Range(Lower26) \cup Range(Digits10)

\* "".join(ch for ch in s if keep(ch))
RECURSIVE KeepDigits(_)
KeepDigits(s) ==
    IF s = <<>> THEN <<>>
    ELSE (IF Head(s) \in Range(Digits10) THEN <<Head(s)>> ELSE <<>>) \o KeepDigits(Tail(s))

RECURSIVE KeepAlnum(_)
KeepAlnum(s) ==
    IF s = <<>> THEN <<>>
    ELSE (IF IsAlnumCh(Head(s)) THEN <<Head(s)>> ELSE <<>>) \o KeepAlnum(Tail(s))

\* truth value of a str-or-None
Truthy(s) == s # None /\ s # <<>>

\* x or y
PyOr(x, y) == IF Truthy(x) THEN x ELSE y

\* int(s) for a string of digits
RECURSIVE PyInt(_)
PyInt(s) ==
    IF s = <<>> THEN 0
    ELSE 10 * PyInt(SubSeq(s, 1, Len(s) - 1)) + (IndexIn(s[Len(s)], Digits10) - 1)


----------------------------------------------------------------------------
(* String literals used as inputs                                          *)

sCSE == <<"C","S","E">>
sEEE == <<"E","E","E">>
sA == <<"A">>
sB == <<"B">>
sBpad == <<" ","b"," ">>
sNoneWord == <<"n","o","n","e">>
s22 == <<"2","2">>
s23 == <<"2","3">>
sRoll1 == <<"2","3","0","3","1","3","7">>
sRoll2 == <<"2","3","0","3","-","1","3","8">>
sCode2100 == <<"C","S","E","-","2","1","0","0">>
sCode2100low == <<"c","s","e"," ","2","1","0","0">>
sCode1202 == <<"C","S","E","-","1","2","0","2">>
sCode1202sp == <<"c","s","e"," ","1","2","0","2">>
sCode1202dd == <<"C","S","E","-","-","1","2","0","2">>
sNameDS == <<"D","a","t","a"," ","S","t","r","u","c","t","u","r","e","s">>
sTree == <<"t","r","e","e">>
sRafin == <<"R","a","f","i","n">>
sOne == <<"1">>
sTwoWord == <<"t","w","o">>
sQuestion == <<"W","h","i","c","h"," ","c","o","u","r","s","e","?">>

\* message texts
tHi == <<"h","i">>
tMessi == <<"w","h","o"," ","i","s"," ","M","e","s","s","i">>
tMyRoll == <<"w","h","a","t"," ","i","s"," ","m","y"," ","r","o","l","l"," ","n","u","m","b","e","r">>
tMyDeptUp == <<"T","e","l","l"," ","m","e"," ","M","Y"," ","D","E","P","T">>
tCtOtherDept == <<"C","S","E","-","2","1","0","0"," ","C","T"," ","1"," ","f","o","r"," ","E","E","E"," ","B"," ","s","e","r","i","e","s"," ","2","2">>
tMarksClaim == <<"c","s","e"," ","1","2","0","2"," ","c","t"," ","2"," ","m","a","r","k","s",","," ","I"," ","g","o","t"," ","2","5">>

----------------------------------------------------------------------------
(* Intent gate                                                             *)

PersonalKeywords ==
    { <<"m","y"," ","r","o","l","l">>,
      <<"r","o","l","l"," ","n","o">>,
      <<"r","o","l","l"," ","n","u","m","b","e","r">>,
      <<"m","y"," ","i","d">>,
      <<"s","t","u","d","e","n","t"," ","i","d">>,
      <<"n","e","u","r","a"," ","i","d">>,
      <<"m","y"," ","n","a","m","e">>,
      <<"w","h","o"," ","a","m"," ","i">>,
      <<"m","y"," ","d","e","p","a","r","t","m","e","n","t">>,
      <<"m","y"," ","d","e","p","t">>,
      <<"m","y"," ","s","e","c","t","i","o","n">>,
      <<"m","y"," ","s","e","r","i","e","s">>,
      <<"t","e","l","l"," ","m","e"," ","m","y"," ","r","o","l","l">>,
      <<"t","e","l","l"," ","m","e"," ","m","y"," ","r","o","l","l"," ","n","o">> }

\* a mutation: the keywords are searched in the text as typed
IsPersonalInfoQuestionCaseSensitive(text) ==
    \E k \in PersonalKeywords : PyContains(PyOr(text, <<>>), k)

_is_personal_info_question(text) ==
    LET t == PyLower(PyOr(text, <<>>))
    IN  \E k \in PersonalKeywords : PyContains(t, k)

\* RouteDecision.intent of intent_router.py
RouteIntents == {"use_tool", "neura_chat", "blocked"}

\* tool names the registry of the process holds (tool_registry.init_tools)
TOOL_REGISTRY == {"find_materials"}

\* tool names registered by tools_init.init_tools
ToolsInitRegistry ==
    {"find_materials", "view_notices", "generate_cover_page", "check_marks",
     "generate_marksheet"}

\* the text of the routing completion: a JSON object (alone, or inside other
\* text) with its intent and tool_name, or text without a JSON object; the
\* intent "tool_query" is not one of RouteDecision's
RouterOutputs ==
    [shape : {<<"obj">>}, intent : RouteIntents,
     tool_name : {"", "find_materials", "view_notices"}]
    \cup {[shape |-> <<"txt", "obj", "txt">>, intent |-> "use_tool",
           tool_name |-> "find_materials"],
          [shape |-> <<"txt">>, intent |-> "", tool_name |-> ""],
          [shape |-> <<"obj">>, intent |-> "tool_query", tool_name |-> ""]}

\* the intents of TOOL_GATE_JSON_PROMPT
GateIntents == {"general_chat", "blocked", "tool_query"}

\* gate_intent, as section 4.1 of the specification describes it: the model's
\* verdict, tool_query when the verdict cannot be parsed, and blocked whenever
\* the deterministic personal-information check fires
gate_intent(text, verdict) ==
    IF _is_personal_info_question(text) THEN "blocked"
    ELSE IF verdict \in GateIntents THEN verdict
    ELSE "tool_query"

----------------------------------------------------------------------------
(* Extraction output of the planner completion and its schema              *)

\* ct_no / year of a validated decision that is None
NoInt == -1

\* a JSON value of a numeric field: null (or absent), a number, or a string
JNull == [t |-> "null", v |-> <<>>]
JInt(digits) == [t |-> "int", v |-> digits]
JStr(chars) == [t |-> "str", v |-> chars]

\* The completion's text is a sequence of pieces: "obj" is one well-formed
\* JSON object (whose content is the data record), "txt" is text without
\* braces, "lbrace" / "rbrace" is text holding a stray brace.
HasOpen(tok) == tok \in {"obj", "lbrace"}
HasClose(tok) == tok \in {"obj", "rbrace"}

\* json.loads(text) succeeds
JsonLoads(shape) == shape = <<"obj">>

\* a mutation: no recovery by brace scanning
ParseJsonRobustNoScan(shape) == IF JsonLoads(shape) THEN "ok" ELSE "raise"

\* step 7 of run_tool_and_get_assistant_text: "ok" or "raise"
ParseJsonRobust(shape) ==
    IF JsonLoads(shape) THEN "ok"
    ELSE LET opens == {i \in DOMAIN shape : HasOpen(shape[i])}
             closes == {i \in DOMAIN shape : HasClose(shape[i])}
         IN  IF opens = {} \/ closes = {} THEN "raise"
             ELSE LET start == CHOOSE i \in opens : \A j \in opens : i <= j
                      end == CHOOSE i \in closes : \A j \in closes : j <= i
                  IN  IF JsonLoads(SubSeq(shape, start, end)) THEN "ok" ELSE "raise"

\* route_intent after the completion: json.loads(raw), then
\* RouteDecision.model_validate(data); ok is FALSE when one of them raises
route_intent(out) ==
    [ok |-> JsonLoads(out.shape) /\ out.intent \in RouteIntents,
     intent |-> out.intent, tool_name |-> out.tool_name, shape |-> out.shape]

\* step 8: a string year / ct_no becomes an int when it is all digits, else None
SanitizeInt(jv) ==
    IF jv.t = "str"
    THEN (IF PyIsDigit(PyStrip(jv.v)) THEN JInt(PyStrip(jv.v)) ELSE JNull)
    ELSE jv

\* step 8: a string series of digits is stripped
SanitizeSeries(s) ==
    IF s # None /\ PyIsDigit(PyStrip(s)) THEN PyStrip(s) ELSE s

Sanitize(data) ==
    [data EXCEPT !.year = SanitizeInt(data.year),
                 !.ct_no = SanitizeInt(data.ct_no),
                 !.series = SanitizeSeries(data.series)]

IntOf(jv) == IF jv.t = "int" THEN PyInt(jv.v) ELSE NoInt

MaterialTypes == {"class_note", "ct_question", "lecture_slide", "semester_question"}

\* a mutation: the sub-type rules are kept, the ask rule is dropped
EnforceFieldRulesNoAskRule(o) ==
    /\ o.material_type = "ct_question"
          => (o.topic = None /\ o.written_by = None /\ o.year = NoInt)
    /\ o.material_type = "semester_question"
          => (o.topic = None /\ o.written_by = None /\ o.ct_no = NoInt)
    /\ o.material_type = "lecture_slide"
          => (o.written_by = None /\ o.ct_no = NoInt /\ o.year = NoInt)
    /\ o.material_type = "class_note"
          => (o.ct_no = NoInt /\ o.year = NoInt)

\* FindMaterialsLLMOutput.enforce_field_rules: TRUE when no ValueError is raised
enforce_field_rules(o) ==
    /\ o.material_type = "ct_question"
          => (o.topic = None /\ o.written_by = None /\ o.year = NoInt)
    /\ o.material_type = "semester_question"
          => (o.topic = None /\ o.written_by = None /\ o.ct_no = NoInt)
    /\ o.material_type = "lecture_slide"
          => (o.written_by = None /\ o.ct_no = NoInt /\ o.year = NoInt)
    /\ o.material_type = "class_note"
          => (o.ct_no = NoInt /\ o.year = NoInt)
    /\ ~(o.mode = "ask" /\ ~Truthy(o.question))

\* the field-level errors of FindMaterialsLLMOutput
FieldErrors(d) ==
    (IF d.extra THEN {"extra_forbidden"} ELSE {})
    \cup (IF d.mode \notin {"", "query", "ask"} THEN {"mode"} ELSE {})
    \cup (IF d.material_type = "" THEN {"material_type_missing"}
          ELSE IF d.material_type \notin MaterialTypes THEN {"material_type_enum"}
          ELSE {})
    \cup (IF d.limit < 1 \/ d.limit > 50 THEN {"limit"} ELSE {})
    \cup (IF d.offset < 0 THEN {"offset"} ELSE {})
    \cup (IF d.sort_by \notin {"", "newest", "oldest"} THEN {"sort_by"} ELSE {})

\* the object pydantic builds from the data (defaults filled in)
BuildOutput(d) ==
    [mode |-> IF d.mode = "" THEN "query" ELSE d.mode,
     question |-> d.question,
     material_type |-> d.material_type,
     course_code |-> d.course_code,
     course_name |-> d.course_name,
     dept |-> d.dept,
     sec |-> d.sec,
     series |-> d.series,
     topic |-> d.topic,
     written_by |-> d.written_by,
     ct_no |-> IntOf(d.ct_no),
     year |-> IntOf(d.year),
     limit |-> d.limit,
     offset |-> d.offset,
     sort_by |-> IF d.sort_by = "" THEN "newest" ELSE d.sort_by]

\* tool.output_model.model_validate(data): "ok", or the kind of the error reply
model_validate(d) ==
    IF FieldErrors(d) # {}
    THEN (IF "material_type_enum" \in FieldErrors(d) THEN "material_type_err" ELSE "invalid")
    ELSE IF enforce_field_rules(BuildOutput(d)) THEN "ok" ELSE "invalid"

\* a mutation: the extraction's own dept and series are kept
NormalizeGroupFieldsKeepExtracted(parsed, profile) == parsed

\* _normalize_group_fields: dept and series always come from the profile
_normalize_group_fields(parsed, profile) ==
    [parsed EXCEPT !.dept = profile.dept,
                   !.series = IF profile.series # None THEN profile.series ELSE None]

----------------------------------------------------------------------------
(* Ranked retrieval of material_service.py                                 *)

_norm_text(s) ==
    IF ~Truthy(s) THEN None
    ELSE IF PyStrip(s) # <<>> THEN PyStrip(s) ELSE None

\* the ways _course_code_re matches s: <<k, sep>> for k letters (2-6), sep
\* separator characters (0 or 1) and 3-5 digits up to the end
CourseCodeReMatches(s) ==
    {m \in (2..6) \X (0..1) :
        /\ Len(s) > m[1] + m[2]
        /\ PyIsAlpha(SubSeq(s, 1, m[1]))
        /\ m[2] = 1 => s[m[1] + 1] \in {"-", "_", " ", "\t", "\n"}
        /\ PyIsDigit(SubSeq(s, m[1] + m[2] + 1, Len(s)))
        /\ Len(s) - m[1] - m[2] \in 3..5}

_norm_course_code(s0) ==
    LET s == _norm_text(s0)
    IN  IF ~Truthy(s) THEN None
        ELSE LET s2 == PyUpper(PyReplaceCh(PyReplaceCh(s, " ", <<>>), "_", <<"-">>))
                 bare == PyReplaceCh(s2, "-", <<>>)
             IN  IF CourseCodeReMatches(bare) # {}
                 THEN LET m == CHOOSE x \in CourseCodeReMatches(bare) : TRUE
                      IN  PyUpper(SubSeq(bare, 1, m[1])) \o <<"-">>
                              \o SubSeq(bare, m[1] + m[2] + 1, Len(bare))
                 ELSE PyUpper(s2)

\* _series_from_profile; series is a String column of every material table
_series_from_profile(parsed_series, profile_series) ==
    IF parsed_series # None THEN parsed_series
    ELSE IF profile_series = None THEN None
    ELSE profile_series

\* hasattr(Model, column) for the four material tables
HasCol(mtype, col) ==
    CASE col = "topic" -> mtype \in {"class_note", "lecture_slide"}
      [] col = "written_by" -> mtype = "class_note"
      [] col = "ct_no" -> mtype = "ct_question"
      [] col = "year" -> mtype = "semester_question"
      [] OTHER -> TRUE

\* column.ilike(_like_pattern(s))
Ilike(col, s) == col # None /\ PyContains(PyLower(col), PyLower(PyStrip(s)))

\* a mutation: the section filter is skipped
ApplyScopeFiltersNoSec(row, dept, sec, series) ==
    /\ Truthy(dept) => row.dept = dept
    /\ series # None => row.series = series

\* _apply_scope_filters, as the predicate a row must satisfy
_apply_scope_filters(row, dept, sec, series) ==
    /\ Truthy(dept) => row.dept = dept
    /\ Truthy(sec) => row.sec = sec
    /\ series # None => row.series = series

\* _apply_phase_filters, phase = "strict"
StrictFilters(row, f) ==
    /\ Truthy(f.course_code) => row.course_code = f.course_code
    /\ (f.ct_no # NoInt /\ HasCol(row.mtype, "ct_no")) => row.ct_no = f.ct_no
    /\ (f.year # NoInt /\ HasCol(row.mtype, "year")) => row.year = f.year
    /\ Truthy(f.course_name) => Ilike(row.course_name, f.course_name)
    /\ (Truthy(f.topic) /\ HasCol(row.mtype, "topic")) => Ilike(row.topic, f.topic)
    /\ (Truthy(f.written_by) /\ HasCol(row.mtype, "written_by"))
          => Ilike(row.written_by, f.written_by)

\* _apply_phase_filters, phase = "broad"
BroadFilters(row, f) ==
    LET text_ors ==
            (IF Truthy(f.course_code) THEN {Ilike(row.course_code, f.course_code)} ELSE {})
            \cup (IF Truthy(f.course_name) THEN {Ilike(row.course_name, f.course_name)} ELSE {})
            \cup (IF Truthy(f.topic) /\ HasCol(row.mtype, "topic")
                  THEN {Ilike(row.topic, f.topic)} ELSE {})
            \cup (IF Truthy(f.written_by) /\ HasCol(row.mtype, "written_by")
                  THEN {Ilike(row.written_by, f.written_by)} ELSE {})
    IN  /\ (f.ct_no # NoInt /\ HasCol(row.mtype, "ct_no")) => row.ct_no = f.ct_no
        /\ (f.year # NoInt /\ HasCol(row.mtype, "year")) => row.year = f.year
        /\ text_ors # {} => TRUE \in text_ors

_apply_phase_filters(row, phase, f) ==
    IF phase = "strict" THEN StrictFilters(row, f) ELSE BroadFilters(row, f)

_score_expr(row, f) ==
    (IF Truthy(f.course_code)
     THEN (IF row.course_code = f.course_code THEN 100
           ELSE IF Ilike(row.course_code, f.course_code) THEN 60 ELSE 0)
     ELSE 0)
    + (IF Truthy(f.course_name) /\ Ilike(row.course_name, f.course_name) THEN 50 ELSE 0)
    + (IF Truthy(f.topic) /\ HasCol(row.mtype, "topic") /\ Ilike(row.topic, f.topic)
       THEN 40 ELSE 0)
    + (IF Truthy(f.written_by) /\ HasCol(row.mtype, "written_by")
          /\ Ilike(row.written_by, f.written_by)
       THEN 20 ELSE 0)
    + (IF f.ct_no # NoInt /\ HasCol(row.mtype, "ct_no") /\ row.ct_no = f.ct_no THEN 20 ELSE 0)
    + (IF f.year # NoInt /\ HasCol(row.mtype, "year") /\ row.year = f.year THEN 20 ELSE 0)

\* ORDER BY match_score DESC, created_at DESC | ASC: a comes strictly before b
OrderedBefore(a, b, f, sort_by) ==
    \/ _score_expr(a, f) > _score_expr(b, f)
    \/ /\ _score_expr(a, f) = _score_expr(b, f)
       /\ IF sort_by = "newest" THEN a.created_at > b.created_at
          ELSE a.created_at < b.created_at

\* the orders in which the database may return the rows of table positions S:
\* rows that tie on every ORDER BY key come in an order SQL leaves open
QueryOrders(table, S, f, sort_by) ==
    {o \in [1..Cardinality(S) -> S] :
        /\ \A i, j \in DOMAIN o : i # j => o[i] # o[j]
        /\ \A i, j \in DOMAIN o :
              i < j => ~OrderedBefore(table[o[j]], table[o[i]], f, sort_by)}

Min(a, b) == IF a < b THEN a ELSE b

\* .offset(n).limit(m)
Paginate(o, offset, limit) == SubSeq(o, offset + 1, Min(Len(o), offset + limit))

\* the scope and the normalized signals find_materials_handler derives
HandlerScope(parsed, profile) ==
    [dept |-> PyOr(_norm_text(parsed.dept), _norm_text(profile.dept)),
     sec |-> PyOr(_norm_text(parsed.sec), _norm_text(profile.section)),
     series |-> _series_from_profile(parsed.series, profile.series)]

HandlerSignals(parsed) ==
    [course_code |-> _norm_course_code(parsed.course_code),
     course_name |-> _norm_text(parsed.course_name),
     topic |-> _norm_text(parsed.topic),
     written_by |-> _norm_text(parsed.written_by),
     ct_no |-> parsed.ct_no,
     year |-> parsed.year]

\* run_phase(phase): the row lists (table positions) the query may return
run_phase(table, parsed, profile, phase) ==
    LET sc == HandlerScope(parsed, profile)
        f == HandlerSignals(parsed)
        S == {i \in DOMAIN table :
                /\ table[i].mtype = parsed.material_type
                /\ _apply_scope_filters(table[i], sc.dept, sc.sec, sc.series)
                /\ _apply_phase_filters(table[i], phase, f)}
    IN  {Paginate(o, parsed.offset, parsed.limit) :
            o \in QueryOrders(table, S, f, parsed.sort_by)}

\* the record of one executed material query
MaterialQuery(parsed, profile, phase, rows) ==
    [table |-> parsed.material_type, kind |-> phase,
     scope |-> HandlerScope(parsed, profile),
     rows |-> rows]

----------------------------------------------------------------------------
(* Inputs of a turn                                                        *)

Actor(role, id, dept, section, series, roll_no) ==
    [role |-> role, id |-> id, dept |-> dept, section |-> section,
     series |-> series, roll_no |-> roll_no]

\* profile rows of students and CRs (dept, section and series are nullable)
Students ==
    { Actor("student", "s1", sCSE, sA, s23, sRoll1),
      Actor("student", "s2", sCSE, None, s23, sRoll2),
      Actor("student", "s4", sCSE, sA, s23, sRoll2),
      Actor("cr",      "c1", sEEE, sBpad, s22, sRoll1),
      Actor("student", "s3", None, sNoneWord, None, <<>>) }

\* a teacher row has a dept and no section, series or roll number
Teachers ==
    { Actor("teacher", "t1", sCSE, None, None, None),
      Actor("teacher", "t2", sEEE, None, None, None) }

UserTexts == {tHi, tMessi, tMyRoll, tMyDeptUp, tCtOtherDept}

Msg(role, kind, body) == [role |-> role, kind |-> kind, body |-> body]

\* _build_history / to_llm_history over the last messages of the room
Histories ==
    { <<>>,
      << Msg("user", "text", <<tMarksClaim>>), Msg("assistant", "text", <<tHi>>) >> }

MaterialRow(id, mtype, code, name, topic, by, ct, year, dept, sec, series, at, emb, dist) ==
    [id |-> id, mtype |-> mtype, course_code |-> code, course_name |-> name,
     topic |-> topic, written_by |-> by, ct_no |-> ct, year |-> year,
     dept |-> dept, sec |-> sec, series |-> series, created_at |-> at,
     vector_embeddings |-> emb, distance |-> dist]

\* rows the material tables may hold, in insertion order; distance is the l2
\* distance of the row's embedding to the embedding of the turn's query
MaterialPool ==
    << MaterialRow("m1", "ct_question", sCode2100, sNameDS, None, None, 1, NoInt, sCSE, sA, s23, 1, TRUE, 2),
       MaterialRow("m2", "ct_question", sCode2100, sNameDS, None, None, 1, NoInt, sEEE, sB, s22, 1, TRUE, 1),
       MaterialRow("m3", "ct_question", sCode2100, sNameDS, None, None, 1, NoInt, sCSE, sB, s23, 1, TRUE, 1),
       MaterialRow("m4", "class_note", sCode2100, sNameDS, sTree, sRafin, NoInt, NoInt, sCSE, sA, s23, 2, TRUE, 1),
       MaterialRow("m5", "class_note", sCode1202, sNameDS, sTree, sRafin, NoInt, NoInt, sCSE, sA, s23, 3, FALSE, 0),
       MaterialRow("m6", "ct_question", sCode1202, sNameDS, None, None, 2, NoInt, sCSE, sA, s23, 1, TRUE, 2) >>

\* the most rows a material table holds
MaxMaterialRows == 3

\* SubSeq of the pool at the positions of S, in pool order
RECURSIVE PickRows(_, _, _)
PickRows(pool, S, i) ==
    IF i > Len(pool) THEN <<>>
    ELSE (IF i \in S THEN <<pool[i]>> ELSE <<>>) \o PickRows(pool, S, i + 1)

MaterialTables ==
    {PickRows(MaterialPool, S, 1) :
        S \in {T \in SUBSET (1..Min(Len(MaterialPool), MaxMaterialRows + 1)) :
                  Cardinality(T) = MaxMaterialRows}}

EmptyDb == [materials |-> <<>>, notices |-> <<>>, sheets |-> <<>>, entries |-> <<>>,
            teachers |-> <<>>]

\* the data a planner completion may carry
PlannerData(m, q, mt, code, name, dept, sec, series, topic, by, ct, year, lim, off, sort, extra) ==
    [mode |-> m, question |-> q, material_type |-> mt, course_code |-> code,
     course_name |-> name, dept |-> dept, sec |-> sec, series |-> series,
     topic |-> topic, written_by |-> by, ct_no |-> ct, year |-> year,
     limit |-> lim, offset |-> off, sort_by |-> sort, extra |-> extra]

PlannerDatas ==
    { PlannerData(mq[1], mq[2], mt, sig[1], None, sc[1], sc[2], sc[3], sig[2], sig[3],
                  sig[4], sig[5], 10, 0, "", FALSE) :
        mq \in {<<"query", None>>, <<"ask", sQuestion>>, <<"ask", None>>, <<"ask", <<>>>>},
        mt \in {"ct_question", "class_note", "notice"},
        sc \in {<<None, None, None>>, <<sEEE, sB, s22>>, <<sCSE, <<" ">>, s23>>},
        sig \in {<<sCode2100low, None, None, JInt(sOne), JNull>>,
                 <<sCode2100, None, None, JStr(sOne), JNull>>,
                 <<None, None, None, JStr(sTwoWord), JNull>>,
                 <<sCode1202, sTree, sRafin, JNull, JNull>>,
                 <<None, sTree, None, JNull, JStr(s23)>>} }
    \cup { PlannerData("query", None, mt, sCode2100, None, None, None, None,
                       sig[1], sig[2], sig[3], sig[4], 10, 0, "", FALSE) :
             mt \in {"lecture_slide", "semester_question"},
             sig \in {<<None, None, JNull, JNull>>,
                      <<sTree, None, JNull, JNull>>,
                      <<None, sRafin, JNull, JNull>>,
                      <<None, None, JInt(sOne), JNull>>,
                      <<None, None, JNull, JInt(s23)>>,
                      <<None, None, JNull, JStr(sTwoWord)>>} }
    \cup { PlannerData("", None, "ct_question", sCode2100, None, None, None, None,
                       None, None, JInt(sOne), JNull, 1, 1, "oldest", FALSE),
           PlannerData("query", None, "ct_question", sCode2100, None, None, None, None,
                       None, None, JInt(sOne), JNull, 10, 0, "newest", TRUE),
           PlannerData("query", None, "", sCode2100, None, None, None, None,
                       None, None, JInt(sOne), JNull, 10, 0, "newest", FALSE),
           PlannerData("lookup", None, "ct_question", sCode2100, None, None, None, None,
                       None, None, JInt(sOne), JNull, 0, 0, "newest", FALSE) }

\* a planner completion that is one JSON object, and the other shapes of text
PlannerRaws ==
    {[shape |-> <<"obj">>, data |-> d] : d \in PlannerDatas}
    \cup {[shape |-> sh,
           data |-> PlannerData("query", None, "ct_question", sCode2100, None, sEEE, None,
                                s22, None, None, JInt(sOne), JNull, 10, 0, "newest", FALSE)] :
            sh \in {<<"txt", "obj", "txt">>, <<"txt">>, <<"obj", "txt", "obj">>,
                    <<"lbrace", "txt">>}}

NoData == [shape |-> <<>>, data |-> <<>>]
NoDecision == [mode |-> "none"]
\* no assistant message stored (yet)
NoMessage == [role |-> "none", kind |-> "", body |-> <<>>]

\* no file, no room, no stored message and no endpoint request: a turn seen
\* from inside its pipeline
StoreIdle ==
    /\ now = 0 /\ files = <<>> /\ rooms = {} /\ msgTable = <<>> /\ requests = <<>>

NoGate == [ok |-> FALSE, intent |-> "none", tool_name |-> "", shape |-> <<>>]
NoResult == [kind |-> "none", detail |-> "", body |-> <<>>]
NoPrev == [turn |-> 0, userText |-> <<>>, history |-> <<>>, extracted |-> <<>>,
           messages |-> <<>>]

Result(kind, detail, body) == [kind |-> kind, detail |-> detail, body |-> body]

LlmCall(prompt, messages) == [prompt |-> prompt, messages |-> messages]

----------------------------------------------------------------------------
(* run_tool_and_get_assistant_text (student and CR chat)                   *)

\* the profile dict of step 2
Profile(a) == [dept |-> a.dept, section |-> a.section, series |-> a.series,
               roll_no |-> a.roll_no]

UserMsg(text) == Msg("user", "text", <<text>>)

Finish(res) ==
    /\ result' = res
    /\ pc' = "done"

\* a completion that fails (status >= 400, timeout): the exception ends the turn
GatewayFails(prompt, messages) ==
    /\ llmCalls' = Append(llmCalls, LlmCall(prompt, messages))
    /\ Finish(Result("failure", "gateway", <<>>))

\* steps 1-3: history, profile, route_intent
StudentGate ==
    /\ pc = "start" /\ path = "run_tool_and_get_assistant_text"
    /\ \/ /\ GatewayFails("router", <<UserMsg(userText)>>)
          /\ UNCHANGED gate
       \/ \E out \in RouterOutputs :
             /\ llmCalls' = Append(llmCalls, LlmCall("router", <<UserMsg(userText)>>))
             /\ gate' = route_intent(out)
             /\ IF route_intent(out).ok
                THEN pc' = "routed" /\ UNCHANGED result
                ELSE Finish(Result("failure", "route_intent", <<>>))
    /\ UNCHANGED <<path, actor, userText, toolName, history, raw, decision, queries,
                   handlers, stages, db, prev, assistant_msg, storeVars>>

\* a mutation: a chat intent falls through to the tool
StudentBranchOfChatFallsThrough(intent, personal) ==
    IF intent = "blocked" \/ personal THEN "blocked" ELSE "tool"

\* which of the three branches of steps 3A / 3B / 4 the turn takes
StudentBranchOf(intent, personal) ==
    IF intent = "blocked" \/ personal THEN "blocked"
    ELSE IF intent \in {"general_chat", "neura_chat"} THEN "chat"
    ELSE "tool"

\* steps 3A, 3B, 4-6: refuse, chat, or resolve the tool and ask the planner
StudentBranch ==
    /\ pc = "routed" /\ path = "run_tool_and_get_assistant_text"
    /\ LET branch == StudentBranchOf(gate.intent, _is_personal_info_question(userText))
           convo == history \o <<UserMsg(userText)>>
           selected == IF gate.tool_name # "" THEN gate.tool_name ELSE toolName
           context == history \o <<Msg("user", "context", <<userText>>)>>
       IN  CASE branch = "blocked" ->
                  /\ UNCHANGED <<raw, stages>>
                  /\ \/ GatewayFails("blocked", convo)
                     \/ /\ llmCalls' = Append(llmCalls, LlmCall("blocked", convo))
                        /\ Finish(Result("refusal", "", <<>>))
            [] branch = "chat" ->
                  /\ UNCHANGED <<raw, stages>>
                  /\ \/ GatewayFails("chat", convo)
                     \/ /\ llmCalls' = Append(llmCalls, LlmCall("chat", convo))
                        /\ Finish(Result("chat", "", <<>>))
            [] OTHER ->
                  IF selected \notin TOOL_REGISTRY
                  THEN /\ Finish(Result("failure", "unknown_tool", <<>>))
                       /\ UNCHANGED <<raw, stages, llmCalls>>
                  ELSE /\ stages' = Append(stages, "EXTRACT")
                       /\ \/ GatewayFails("planner", context) /\ UNCHANGED raw
                          \/ \E r \in PlannerRaws :
                                /\ llmCalls' = Append(llmCalls, LlmCall("planner", context))
                                /\ raw' = r
                                /\ pc' = "planned"
                                /\ UNCHANGED result
    /\ UNCHANGED <<path, actor, userText, toolName, history, gate, decision, queries,
                   handlers, db, prev, assistant_msg, storeVars>>

\* a mutation: the strict phase only
FindMaterialsHandlerStrictOnly(parsed, profile) ==
    \E strict \in run_phase(db.materials, parsed, profile, "strict") :
        /\ queries' = Append(queries, MaterialQuery(parsed, profile, "strict", strict))
        /\ Finish(Result("answer", "items", strict))

\* find_materials_handler: the strict phase, then the broad phase when the
\* strict phase returned no rows
find_materials_handler(parsed, profile) ==
    \E strict \in run_phase(db.materials, parsed, profile, "strict") :
        IF strict # <<>>
        THEN /\ queries' = Append(queries, MaterialQuery(parsed, profile, "strict", strict))
             /\ Finish(Result("answer", "items", strict))
        ELSE \E broad \in run_phase(db.materials, parsed, profile, "broad") :
                /\ queries' = queries
                       \o << MaterialQuery(parsed, profile, "strict", strict),
                             MaterialQuery(parsed, profile, "broad", broad) >>
                /\ Finish(Result("answer", "items", broad))

\* steps 7-11: parse, sanitize, validate, force the group fields, ask or search
StudentExtract ==
    /\ pc = "planned" /\ path = "run_tool_and_get_assistant_text"
    /\ IF ParseJsonRobust(raw.shape) = "raise"
       THEN /\ Finish(Result("failure", "no_json", <<>>))
            /\ UNCHANGED <<decision, queries, handlers, stages>>
       ELSE LET data == Sanitize(raw.data)
                verdict == model_validate(data)
                output == _normalize_group_fields(BuildOutput(data), Profile(actor))
            IN  CASE verdict = "material_type_err" ->
                       /\ Finish(Result("wrong_tool", "material_type", <<>>))
                       /\ stages' = Append(stages, "WRONG_TOOL")
                       /\ UNCHANGED <<decision, queries, handlers>>
                 [] verdict = "invalid" ->
                       /\ Finish(Result("ask", "invalid", <<>>))
                       /\ stages' = Append(stages, "ASK")
                       /\ UNCHANGED <<decision, queries, handlers>>
                 [] OTHER ->
                       /\ decision' = output
                       /\ IF output.mode = "ask"
                          THEN /\ stages' = Append(stages, "ASK")
                               /\ Finish(Result("ask", "question", <<output.question>>))
                               /\ UNCHANGED <<queries, handlers>>
                          ELSE /\ stages' = stages \o <<"VALIDATED", "ACTION", "ANSWER">>
                               /\ handlers' = Append(handlers, "find_materials_handler")
                               /\ find_materials_handler(output, Profile(actor))
    /\ UNCHANGED <<path, actor, userText, toolName, history, gate, raw, llmCalls, db, prev, assistant_msg, storeVars>>


----------------------------------------------------------------------------
(* run_tool_chat_teacher and run_tool_chat: gate, then the tool's pipeline *)

\* what the gate's completion can come back as: a verdict of the prompt, or
\* text no verdict can be read from
GateVerdicts == GateIntents \cup {"unparseable"}

\* the tools each chat endpoint lets through (ALLOWED_TOOLS)
StudentAllowedTools == {"find_materials", "view_notices", "generate_cover_page", "check_marks"}
TeacherAllowedTools == {"find_materials", "generate_marksheet"}

\* the body both dispatchers share: gate_intent, then chat, refusal or the
\* handler of the selected tool
ToolChatDispatch ==
    LET convo == history \o <<UserMsg(userText)>>
    IN  \/ /\ GatewayFails("gate", convo)
           /\ UNCHANGED <<gate, handlers>>
        \/ \E verdict \in GateVerdicts :
              LET intent == gate_intent(userText, verdict)
              IN  /\ gate' = [ok |-> TRUE, intent |-> intent, tool_name |-> "",
                           shape |-> <<"obj">>]
                  /\ CASE intent = "general_chat" ->
                            /\ UNCHANGED handlers
                            /\ \/ /\ llmCalls' = llmCalls \o <<LlmCall("gate", convo),
                                                              LlmCall("chat", convo)>>
                                  /\ Finish(Result("chat", "", <<>>))
                               \/ /\ llmCalls' = llmCalls \o <<LlmCall("gate", convo),
                                                              LlmCall("chat", convo)>>
                                  /\ Finish(Result("failure", "gateway", <<>>))
                       [] intent = "blocked" ->
                            /\ UNCHANGED handlers
                            /\ \/ /\ llmCalls' = llmCalls \o <<LlmCall("gate", convo),
                                                              LlmCall("blocked", convo)>>
                                  /\ Finish(Result("refusal", "", <<>>))
                               \/ /\ llmCalls' = llmCalls \o <<LlmCall("gate", convo),
                                                              LlmCall("blocked", convo)>>
                                  /\ Finish(Result("failure", "gateway", <<>>))
                       [] OTHER ->
                            /\ llmCalls' = Append(llmCalls, LlmCall("gate", convo))
                            /\ IF toolName \notin ToolsInitRegistry
                               THEN /\ Finish(Result("failure", "unknown_tool", <<>>))
                                    /\ UNCHANGED handlers
                               ELSE /\ handlers' = Append(handlers, toolName)
                                    /\ pc' = toolName
                                    /\ UNCHANGED result

run_tool_chat_teacher ==
    /\ pc = "start" /\ path = "run_tool_chat_teacher"
    /\ ToolChatDispatch
    /\ UNCHANGED <<path, actor, userText, toolName, history, raw, decision, queries,
                   stages, db, prev, assistant_msg, storeVars>>

run_tool_chat ==
    /\ pc = "start" /\ path = "run_tool_chat"
    /\ ToolChatDispatch
    /\ UNCHANGED <<path, actor, userText, toolName, history, raw, decision, queries,
                   stages, db, prev, assistant_msg, storeVars>>

----------------------------------------------------------------------------
(* Embedding retrieval: find_materials_service.py and view_notice_service.py *)

\* top_k of both pipelines
top_k == 5

\* ORDER BY distance ASC LIMIT k over the table positions S: rows at the same
\* distance come in an order SQL leaves open
DistanceOrders(table, S, k) ==
    {SubSeq(o, 1, Min(Len(o), k)) :
        o \in {p \in [1..Cardinality(S) -> S] :
                 /\ \A i, j \in DOMAIN p : i # j => p[i] # p[j]
                 /\ \A i, j \in DOMAIN p :
                       i < j => table[p[i]].distance <= table[p[j]].distance}}

ALLOWED_TYPES == {"classnote", "lectureslide", "ct_question", "semester_question"}

\* TYPE_TO_MODEL: the table (by the mtype of its rows) of a detected type
TYPE_TO_MODEL(t) ==
    CASE t = "classnote" -> "class_note"
      [] t = "lectureslide" -> "lecture_slide"
      [] OTHER -> t

\* what the type-detection completion can come back as
DetectOutputs == ALLOWED_TYPES \cup {"notice", "unparseable"}

\* _detect_material_type: the type of the output, or the default
_detect_material_type(out) == IF out \in ALLOWED_TYPES THEN out ELSE "classnote"

\* _similarity_search of find_materials_service.py: the positions it may return
MaterialSimilaritySearch(table, mtype, user) ==
    IF ~Truthy(user.dept) THEN {<<>>}
    ELSE DistanceOrders(table,
                        {i \in DOMAIN table :
                            /\ table[i].mtype = mtype
                            /\ table[i].vector_embeddings
                            /\ table[i].dept = user.dept},
                        top_k)

\* the record of the material query of the embedding search
SimilarityQuery(mtype, user, rows) ==
    [table |-> mtype, kind |-> "similarity",
     scope |-> [dept |-> user.dept, sec |-> None, series |-> None],
     rows |-> rows]

\* run_find_materials_pipeline: detect the type, embed, retrieve, answer
run_find_materials_pipeline ==
    /\ pc = "find_materials"
    /\ LET convo == history \o <<UserMsg(userText)>>
           detect == LlmCall("material_type", convo)
       IN  \/ /\ llmCalls' = Append(llmCalls, detect)
              /\ Finish(Result("failure", "gateway", <<>>))
              /\ UNCHANGED <<queries, stages>>
           \/ \E out \in DetectOutputs :
                LET material_type == _detect_material_type(out)
                    mtype == TYPE_TO_MODEL(material_type)
                IN  \/ /\ llmCalls' = Append(llmCalls, detect)
                       /\ stages' = Append(stages, "TYPE_DETECT")
                       /\ Finish(Result("failure", "embedding", <<>>))
                       /\ UNCHANGED queries
                    \/ \E rows \in MaterialSimilaritySearch(db.materials, mtype, actor) :
                         LET answer == LlmCall("answer",
                                 history \o <<Msg("user", "profile", <<>>),
                                              Msg("user", "question", <<userText>>),
                                              Msg("user", "detected", <<>>),
                                              Msg("user", "retrieved", rows)>>)
                         IN  /\ llmCalls' = llmCalls \o <<detect, answer>>
                             /\ stages' = stages \o <<"TYPE_DETECT", "ACTION", "ANSWER">>
                             /\ queries' = IF Truthy(actor.dept)
                                           THEN Append(queries, SimilarityQuery(mtype, actor, rows))
                                           ELSE queries
                             /\ \/ Finish(Result("answer", "text", rows))
                                \/ Finish(Result("failure", "gateway", <<>>))
    /\ UNCHANGED <<path, actor, userText, toolName, history, gate, raw, decision,
                   handlers, db, prev, assistant_msg, storeVars>>

\* _normalize_section of view_notice_service.py
_normalize_section(value) ==
    IF value = None THEN None
    ELSE LET cleaned == PyStrip(value)
         IN  IF cleaned = <<>> \/ PyLower(cleaned) \in {<<"n","o","n","e">>, <<"n","u","l","l">>}
             THEN None
             ELSE IF PyUpper(cleaned) \in {<<"A">>, <<"B">>, <<"C">>} THEN PyUpper(cleaned)
             ELSE None

\* a mutation: a student with a section sees that section's notices only
NoticeScopeOwnSectionOnly(row, dept, series, sec_norm) ==
    /\ row.vector_embeddings
    /\ row.dept = dept
    /\ row.series = series
    /\ row.sec = sec_norm

\* the filters of _similarity_search of view_notice_service.py
NoticeScope(row, dept, series, sec_norm) ==
    /\ row.vector_embeddings
    /\ row.dept = dept
    /\ row.series = series
    /\ IF sec_norm = None THEN row.sec = None
       ELSE (row.sec = sec_norm \/ row.sec = None)

\* _similarity_search of view_notice_service.py: the positions it may return
NoticeSimilaritySearch(table, student) ==
    LET dept == student.dept
        series == PyOr(student.series, <<>>)
    IN  IF ~Truthy(dept) \/ ~Truthy(series) THEN {<<>>}
        ELSE DistanceOrders(table,
                            {i \in DOMAIN table :
                                NoticeScope(table[i], dept, series,
                                            _normalize_section(student.section))},
                            top_k)

\* run_view_notices_pipeline: embed, retrieve, answer
run_view_notices_pipeline ==
    /\ pc = "view_notices"
    /\ \/ /\ Finish(Result("failure", "embedding", <<>>))
          /\ UNCHANGED <<queries, stages, llmCalls>>
       \/ \E rows \in NoticeSimilaritySearch(db.notices, actor) :
            /\ llmCalls' = Append(llmCalls, LlmCall("answer",
                               history \o <<Msg("user", "profile", <<>>),
                                            Msg("user", "question", <<userText>>),
                                            Msg("user", "retrieved", rows)>>))
            /\ stages' = stages \o <<"ACTION", "ANSWER">>
            /\ queries' = IF Truthy(actor.dept) /\ Truthy(PyOr(actor.series, <<>>))
                          THEN Append(queries,
                                  [table |-> "notice", kind |-> "similarity",
                                   scope |-> [dept |-> actor.dept,
                                              sec |-> _normalize_section(actor.section),
                                              series |-> PyOr(actor.series, <<>>)],
                                   rows |-> rows])
                          ELSE queries
            /\ \/ Finish(Result("answer", "text", rows))
               \/ Finish(Result("failure", "gateway", <<>>))
    /\ UNCHANGED <<path, actor, userText, toolName, history, gate, raw, decision,
                   handlers, db, prev, assistant_msg, storeVars>>

NoticeRow(id, dept, sec, series, emb, dist) ==
    [id |-> id, dept |-> dept, sec |-> sec, series |-> series,
     vector_embeddings |-> emb, distance |-> dist]

\* rows the notice table may hold (the section of a notice may be null)
NoticePool ==
    << NoticeRow("n1", sCSE, None, s23, TRUE, 2),
       NoticeRow("n2", sCSE, sA, s23, TRUE, 1),
       NoticeRow("n3", sCSE, sB, s23, TRUE, 1),
       NoticeRow("n4", sEEE, sB, s22, TRUE, 1),
       NoticeRow("n5", sCSE, sA, s22, TRUE, 3),
       NoticeRow("n6", sEEE, None, s22, FALSE, 0) >>

\* the most rows the notice table holds
MaxNotices == 3

NoticeTables ==
    {PickRows(NoticePool, S, 1) :
        S \in {T \in SUBSET (1..Len(NoticePool)) : Cardinality(T) = Min(MaxNotices, Len(NoticePool))}}

----------------------------------------------------------------------------
(* check_marks: extraction (CheckMarksExtracted) and the scoped lookup     *)

\* s.replace("--", "-")
RECURSIVE ReplaceDoubleHyphen(_)
ReplaceDoubleHyphen(s) ==
    IF Len(s) < 2 THEN s
    ELSE IF s[1] = "-" /\ s[2] = "-" THEN <<"-">> \o ReplaceDoubleHyphen(SubSeq(s, 3, Len(s)))
    ELSE <<s[1]>> \o ReplaceDoubleHyphen(Tail(s))

\* s.split("-"): the pieces between the hyphens
RECURSIVE SplitHyphen(_)
SplitHyphen(s) ==
    IF \A i \in DOMAIN s : s[i] # "-" THEN <<s>>
    ELSE LET k == CHOOSE i \in DOMAIN s : s[i] = "-" /\ \A j \in 1..(i - 1) : s[j] # "-"
         IN  <<SubSeq(s, 1, k - 1)>> \o SplitHyphen(SubSeq(s, k + 1, Len(s)))

\* _normalize_course_code of check_marks_service.py
CheckMarksNormalizeCourseCode(raw_code) ==
    IF ~Truthy(raw_code) THEN <<>>
    ELSE LET s == PyReplaceCh(PyReplaceCh(PyUpper(PyStrip(raw_code)), " ", <<>>), "_", <<"-">>)
             t == ReplaceDoubleHyphen(s)
             parts == SplitHyphen(t)
         IN  IF Len(s) = 7 /\ PyIsAlpha(SubSeq(s, 1, 3)) /\ PyIsDigit(SubSeq(s, 4, 7))
             THEN SubSeq(s, 1, 3) \o <<"-">> \o SubSeq(s, 4, 7)
             ELSE IF Len(s) = 8 /\ PyIsAlpha(SubSeq(s, 1, 3)) /\ s[4] = "-"
                     /\ PyIsDigit(SubSeq(s, 5, 8))
             THEN s
             ELSE IF /\ Len(t) >= 8 /\ PyIsAlpha(SubSeq(t, 1, 3)) /\ "-" \in Range(t)
                     /\ Len(parts) >= 2 /\ PyIsAlpha(parts[1]) /\ PyIsDigit(parts[2])
                     /\ Len(parts[1]) >= 3 /\ Len(parts[2]) >= 4
             THEN SubSeq(parts[1], 1, 3) \o <<"-">> \o SubSeq(parts[2], 1, 4)
             ELSE <<>>

\* a mutation: codes are compared as they are written
CourseCodeKeyLiteral(code) == code

\* _course_code_key, and the regexp_replace(upper(course_code)) of the query
_course_code_key(code) == KeepAlnum(PyUpper(code))

\* _normalize_roll
_normalize_roll(roll_full) == IF ~Truthy(roll_full) THEN <<>> ELSE KeepDigits(roll_full)

sAskCourseCt == <<"Please provide course code and CT number (e.g., CSE-1202 CT-2).">>
sAskCourseCtShort == <<"Please provide course code and CT number.">>
sNotMarks == <<"This is not a marks request. Please use the correct tool.">>
sUseOther == <<"Use Find Materials.">>

\* a CheckMarksExtracted object
CheckMarksExtracted(mode, code, ct, question, message) ==
    [mode |-> mode, course_code |-> code, ct_no |-> ct, question |-> question,
     message |-> message]

\* the data of a check_marks extraction completion: mode "" is an absent key,
\* course_code None is a JSON null, question / message None are null or absent
MarksDatas ==
    { CheckMarksExtracted("ok", sCode1202sp, JInt(<<"2">>), None, None),
      CheckMarksExtracted("", sCode1202, JStr(<<"2">>), None, None),
      CheckMarksExtracted("ok", sCode1202dd, JInt(<<"2">>), None, None),
      CheckMarksExtracted("ok", sCode2100, JInt(<<"1">>), None, None),
      CheckMarksExtracted("ok", <<>>, JInt(<<"2">>), None, None),
      CheckMarksExtracted("ok", sCode1202, JNull, None, None),
      CheckMarksExtracted("ok", sCode1202, JStr(sTwoWord), None, None),
      CheckMarksExtracted("ok", None, JInt(<<"2">>), None, None),
      CheckMarksExtracted("lookup", sCode1202, JInt(<<"2">>), None, None),
      CheckMarksExtracted("ask", <<>>, JNull, sQuestion, None),
      CheckMarksExtracted("ask", <<>>, JNull, None, None),
      CheckMarksExtracted("ask", sCode1202, JInt(<<"2">>), <<>>, None),
      CheckMarksExtracted("wrong_tool", <<>>, JNull, None, sUseOther),
      CheckMarksExtracted("wrong_tool", sCode1202, JInt(<<"2">>), None, None) }

MarksRaws ==
    {[shape |-> <<"obj">>, data |-> d] : d \in MarksDatas}
    \cup {[shape |-> sh,
           data |-> CheckMarksExtracted("ok", sCode1202, JInt(<<"2">>), None, None)] :
            sh \in {<<"txt", "obj", "txt">>, <<"txt">>, <<"lbrace", "txt">>,
                    <<"rbrace", "txt", "lbrace">>}}

\* the try / except of _extract_json: "ok" (the object's data), "default"
\* (the built-in ask) or "raise"
ExtractJsonParse(shape) ==
    IF JsonLoads(shape) THEN "ok"
    ELSE LET opens == {i \in DOMAIN shape : HasOpen(shape[i])}
             closes == {i \in DOMAIN shape : HasClose(shape[i])}
         IN  IF opens = {} \/ closes = {} THEN "default"
             ELSE LET start == CHOOSE i \in opens : \A j \in opens : i <= j
                      end == CHOOSE i \in closes : \A j \in closes : j <= i
                  IN  IF start <= end /\ JsonLoads(SubSeq(shape, start, end))
                      THEN "ok" ELSE "raise"

\* CheckMarksExtracted.model_validate(data) does not raise
CheckMarksValidates(d) ==
    /\ d.mode \in {"", "ok", "ask", "wrong_tool"}
    /\ d.course_code # None
    /\ d.ct_no.t = "str" => PyIsDigit(d.ct_no.v)

\* the object model_validate builds (defaults filled in, "2" coerced to 2)
CheckMarksBuild(d) ==
    [mode |-> IF d.mode = "" THEN "ok" ELSE d.mode,
     course_code |-> d.course_code,
     ct_no |-> IF d.ct_no.t = "null" THEN NoInt ELSE PyInt(d.ct_no.v),
     question |-> d.question,
     message |-> d.message]

\* _extract_json after the completion: the object it returns, or "raise"
_extract_json(r) ==
    LET how == ExtractJsonParse(r.shape)
        parsed == CheckMarksBuild(r.data)
        code == CheckMarksNormalizeCourseCode(parsed.course_code)
    IN  IF how = "raise" THEN [mode |-> "raise"]
        ELSE IF how = "default"
        THEN [mode |-> "ask", course_code |-> <<>>, ct_no |-> NoInt,
              question |-> sAskCourseCt, message |-> None]
        ELSE IF ~CheckMarksValidates(r.data) THEN [mode |-> "raise"]
        ELSE IF parsed.mode = "ok"
        THEN (IF ~Truthy(code) \/ parsed.ct_no = NoInt
              THEN [mode |-> "ask", course_code |-> <<>>, ct_no |-> NoInt,
                    question |-> sAskCourseCt, message |-> None]
              ELSE [parsed EXCEPT !.course_code = code])
        ELSE parsed

SheetRow(id, teacher, dept, section, series, code, name, ct, at) ==
    [id |-> id, created_by_teacher_id |-> teacher, dept |-> dept, section |-> section,
     series |-> series, course_code |-> code, course_name |-> name, ct_no |-> ct,
     created_at |-> at]

EntryRow(sheet, roll, marks) == [result_sheet_id |-> sheet, roll_no |-> roll, marks |-> marks]

\* _normalize_course_code of result_schemas.py, which every stored sheet's
\* course code went through
ResultSheetNormalizeCourseCode(value) ==
    LET cleaned == PyReplaceCh(PyReplaceCh(PyUpper(PyStrip(value)), " ", <<>>), "_", <<"-">>)
    IN  IF "-" \notin Range(cleaned) /\ Len(cleaned) >= 7
        THEN SubSeq(cleaned, 1, 3) \o <<"-">> \o SubSeq(cleaned, 4, Len(cleaned))
        ELSE cleaned

\* a mutation: the sheets of every series are candidates
ResultSheetFilterAnySeries(sh, dept, series, key, ct) ==
    /\ sh.dept = dept
    /\ _course_code_key(sh.course_code) = key
    /\ sh.ct_no = ct

\* the filters both branches of the sheet query share
ResultSheetFilter(sh, dept, series, key, ct) ==
    /\ sh.dept = dept
    /\ sh.series = series
    /\ _course_code_key(sh.course_code) = key
    /\ sh.ct_no = ct

\* .order_by(desc(created_at)) over the positions S: the orders SQL may return
NewestFirst(table, S) ==
    {p \in [1..Cardinality(S) -> S] :
        /\ \A i, j \in DOMAIN p : i # j => p[i] # p[j]
        /\ \A i, j \in DOMAIN p : i < j => table[p[i]].created_at >= table[p[j]].created_at}

\* a mutation: the first entry of the sheet, whatever its roll number
EntryOfAnyRoll(entries, sheet_id, roll) ==
    IF \E i \in DOMAIN entries : entries[i].result_sheet_id = sheet_id
    THEN CHOOSE i \in DOMAIN entries : entries[i].result_sheet_id = sheet_id
    ELSE 0

\* the entry of a sheet for a roll (0: none); (sheet, roll) is unique
EntryOf(entries, sheet_id, roll) ==
    IF \E i \in DOMAIN entries :
          entries[i].result_sheet_id = sheet_id /\ entries[i].roll_no = roll
    THEN CHOOSE i \in DOMAIN entries :
          entries[i].result_sheet_id = sheet_id /\ entries[i].roll_no = roll
    ELSE 0

\* step 3 of run_check_marks_pipeline: the <<sheet, entry>> positions it may
\* end with (0: None)
MarksLookup(tables, student, extracted) ==
    LET std_section == PyOr(student.section, None)
        std_series == PyOr(student.series, <<>>)
        roll == _normalize_roll(student.roll_no)
        key == _course_code_key(extracted.course_code)
        S == {i \in DOMAIN tables.sheets :
                /\ ResultSheetFilter(tables.sheets[i], student.dept, std_series, key,
                                     extracted.ct_no)
                /\ Truthy(std_section) => tables.sheets[i].section = std_section}
    IN  IF Truthy(std_section)
        THEN (IF S = {} THEN {<<0, 0>>}
              ELSE {<<o[1], EntryOf(tables.entries, tables.sheets[o[1]].id, roll)>> :
                        o \in NewestFirst(tables.sheets, S)})
        ELSE {IF \E k \in DOMAIN o : EntryOf(tables.entries, tables.sheets[o[k]].id, roll) # 0
              THEN LET k == CHOOSE n \in DOMAIN o :
                                /\ EntryOf(tables.entries, tables.sheets[o[n]].id, roll) # 0
                                /\ \A m \in 1..(n - 1) :
                                      EntryOf(tables.entries, tables.sheets[o[m]].id, roll) = 0
                   IN  <<o[k], EntryOf(tables.entries, tables.sheets[o[k]].id, roll)>>
              ELSE <<0, 0>> :
                 o \in NewestFirst(tables.sheets, S)}

sUnknown == <<"Unknown">>

\* step 5: the full name of the teacher who created the sheet
TeacherName(tables, sheet) ==
    IF \E i \in DOMAIN tables.teachers : tables.teachers[i].id = sheet.created_by_teacher_id
    THEN LET t == CHOOSE i \in DOMAIN tables.teachers :
                      tables.teachers[i].id = sheet.created_by_teacher_id
         IN  PyOr(tables.teachers[t].full_name, sUnknown)
    ELSE sUnknown

\* step 6: grounded_ctx
GroundedCtx(tables, extracted, sheet, entry) ==
    [course_code |-> extracted.course_code,
     course_name |-> PyOr(sheet.course_name, sUnknown),
     ct_no |-> extracted.ct_no,
     marks |-> entry.marks,
     teacher_name |-> TeacherName(tables, sheet)]

\* a mutation: the answer completion also gets the conversation
CheckMarksAnswerMessagesWithConversation(hist, user_text, ctx) ==
    hist \o <<UserMsg(user_text), Msg("assistant", "DB_CONTEXT", <<ctx>>)>>

\* the messages of the answer completion of step 6
CheckMarksAnswerMessages(hist, user_text, ctx) ==
    <<Msg("assistant", "DB_CONTEXT", <<ctx>>)>>

\* step 1 of run_check_marks_pipeline: _extract_json, wrong_tool and ask
CheckMarksExtract ==
    /\ pc = "check_marks"
    /\ LET convo == history \o <<UserMsg(userText)>>
       IN  /\ llmCalls' = Append(llmCalls, LlmCall("check_marks_json", convo))
           /\ \/ /\ Finish(Result("failure", "gateway", <<>>))
                 /\ stages' = Append(stages, "EXTRACT")
                 /\ UNCHANGED <<raw, decision>>
              \/ \E r \in MarksRaws :
                   LET extracted == _extract_json(r)
                   IN  /\ raw' = r
                       /\ stages' = stages \o
                              (CASE extracted.mode = "wrong_tool" -> <<"EXTRACT", "WRONG_TOOL">>
                                 [] extracted.mode = "ask" -> <<"EXTRACT", "ASK">>
                                 [] OTHER -> <<"EXTRACT">>)
                       /\ CASE extracted.mode = "raise" ->
                                 /\ Finish(Result("failure", "extract_json", <<>>))
                                 /\ UNCHANGED decision
                            [] extracted.mode = "wrong_tool" ->
                                 /\ decision' = extracted
                                 /\ Finish(Result("wrong_tool", "message",
                                                  <<PyOr(extracted.message, sNotMarks)>>))
                            [] extracted.mode = "ask" ->
                                 /\ decision' = extracted
                                 /\ Finish(Result("ask", "question",
                                                  <<PyOr(extracted.question, sAskCourseCtShort)>>))
                            [] OTHER ->
                                 /\ decision' = extracted
                                 /\ pc' = "check_marks_lookup"
                                 /\ UNCHANGED result
    /\ UNCHANGED <<path, actor, userText, toolName, history, gate, queries, handlers,
                   db, prev, assistant_msg, storeVars>>

\* steps 2-6 of run_check_marks_pipeline: profile, sheet and entry, answer
CheckMarksLookup ==
    /\ pc = "check_marks_lookup"
    /\ IF ~Truthy(_normalize_roll(actor.roll_no))
       THEN /\ stages' = Append(stages, "VALIDATED")
            /\ Finish(Result("answer", "no_roll", <<>>))
            /\ UNCHANGED <<queries, llmCalls>>
       ELSE \E found \in MarksLookup(db, actor, decision) :
              LET q == [table |-> "result_sheet", kind |-> "lookup",
                        scope |-> [dept |-> actor.dept, sec |-> PyOr(actor.section, None),
                                   series |-> PyOr(actor.series, <<>>)],
                        sheet |-> found[1], entry |-> found[2], rows |-> <<>>]
              IN  /\ queries' = Append(queries, q)
                  /\ IF found[1] = 0
                     THEN /\ stages' = stages \o <<"VALIDATED", "ACTION">>
                          /\ Finish(Result("answer", "no_sheet", <<>>))
                          /\ UNCHANGED llmCalls
                     ELSE IF found[2] = 0
                     THEN /\ stages' = stages \o <<"VALIDATED", "ACTION">>
                          /\ Finish(Result("answer", "no_entry", <<>>))
                          /\ UNCHANGED llmCalls
                     ELSE LET ctx == GroundedCtx(db, decision, db.sheets[found[1]],
                                                 db.entries[found[2]])
                          IN  /\ stages' = stages \o <<"VALIDATED", "ACTION", "ANSWER">>
                              /\ llmCalls' = Append(llmCalls,
                                     LlmCall("check_marks_answer",
                                             CheckMarksAnswerMessages(history, userText, ctx)))
                              /\ \/ Finish(Result("answer", "marks", <<ctx>>))
                                 \/ Finish(Result("failure", "gateway", <<>>))
    /\ UNCHANGED <<path, actor, userText, toolName, history, gate, raw, decision,
                   handlers, db, prev, assistant_msg, storeVars>>

----------------------------------------------------------------------------
(* generate_marksheet                                                      *)

\* a key the JSON object does not have (data.get(key) is then its default)
Absent == <<"<absent>">>

\* data.get(key) without a default
DictGet(v) == IF v = Absent THEN None ELSE v

\* a ct_no value of the JSON: null, a list of ints, one int, a list of strings
CtNull == [t |-> "null", v |-> <<>>]
CtList(l) == [t |-> "list", v |-> l]
CtInt(n) == [t |-> "int", v |-> <<n>>]
CtStrList(l) == [t |-> "strlist", v |-> l]

MarksheetData(mode, question, dept, section, series, code, ct) ==
    [mode |-> mode, question |-> question, dept |-> dept, section |-> section,
     series |-> series, course_code |-> code, ct_no |-> ct]

sLowerCse == <<"c","s","e">>
sOutOfScope == <<"Sorry, this request does not fall under the marksheet generation tool's scope.">>
sMissingInfo == <<"Please provide missing info.">>

\* the data of a marksheet extraction completion (the forms of the prompt,
\* and objects that mix them); mode "" is an absent key
MarksheetDatas ==
    { MarksheetData("ok", Absent, sCSE, sA, s23, sCode1202sp, CtList(<<2>>)),
      MarksheetData("ok", Absent, sLowerCse, <<"a">>, s23, sCode1202, CtList(<<1, 2>>)),
      MarksheetData("ok", Absent, sEEE, sB, s22, sCode1202, CtList(<<2>>)),
      MarksheetData("ok", Absent, sCSE, sB, s23, sCode1202, CtList(<<2, 3>>)),
      MarksheetData("", Absent, sCSE, sA, s23, sCode1202dd, CtList(<<2>>)),
      MarksheetData("ok", Absent, sCSE, sA, s23, sCode1202, CtInt(2)),
      MarksheetData("ok", Absent, sCSE, sA, s23, sCode1202, CtStrList(<<2>>)),
      MarksheetData("ok", Absent, sCSE, Absent, s23, sCode1202, CtList(<<>>)),
      MarksheetData("ask", sQuestion, Absent, Absent, Absent, Absent, CtNull),
      MarksheetData("ask", sOutOfScope, Absent, Absent, Absent, Absent, CtNull),
      MarksheetData("ask", Absent, Absent, Absent, Absent, Absent, CtNull),
      MarksheetData("ask", None, Absent, Absent, Absent, Absent, CtNull),
      MarksheetData("ask", <<>>, sCSE, sA, s23, sCode1202, CtList(<<2>>)),
      MarksheetData("wrong_tool", Absent, Absent, Absent, Absent, Absent, CtNull),
      MarksheetData("wrong_tool", Absent, sCSE, sA, s23, sCode1202, CtList(<<2>>)) }

MarksheetRaws ==
    {[shape |-> <<"obj">>, data |-> d] : d \in MarksheetDatas}
    \cup {[shape |-> sh,
           data |-> MarksheetData("ok", Absent, sCSE, sA, s23, sCode1202, CtList(<<2>>))] :
            sh \in {<<"txt", "obj", "txt">>, <<"txt">>}}

\* _normalize_course_code of generate_marksheet_service.py
MarksheetNormalizeCourseCode(code) ==
    LET c == PyReplaceCh(PyReplaceCh(PyUpper(PyStrip(code)), " ", <<>>), "_", <<"-">>)
    IN  IF "-" \notin Range(c) /\ Len(c) >= 7
        THEN SubSeq(c, 1, 3) \o <<"-">> \o SubSeq(c, 4, Len(c))
        ELSE c

\* step 2: the required keys whose value is falsy
MarksheetMissing(data) ==
    SelectSeq(<<"dept", "section", "series", "course_code", "ct_no">>,
              LAMBDA k :
                  IF k = "ct_no" THEN data.ct_no.t = "null" \/ data.ct_no.v = <<>>
                  ELSE ~Truthy(DictGet(data[k])))

\* a mutation: the sheets of every teacher are selected
MarksheetFilterAnyTeacher(sh, teacher_id, dept, section, series, course_code, ct_list) ==
    /\ sh.dept = dept
    /\ sh.section = section
    /\ sh.series = series
    /\ sh.course_code = course_code
    /\ sh.ct_no \in Range(ct_list)

\* step 3: the filter of the ResultSheet query
MarksheetFilter(sh, teacher_id, dept, section, series, course_code, ct_list) ==
    /\ sh.created_by_teacher_id = teacher_id
    /\ sh.dept = dept
    /\ sh.section = section
    /\ sh.series = series
    /\ sh.course_code = course_code
    /\ sh.ct_no \in Range(ct_list)

\* the dept, section, series, course code and CT list the query uses
MarksheetScope(data) ==
    [dept |-> PyStrip(PyUpper(data.dept)),
     sec |-> PyStrip(PyUpper(data.section)),
     series |-> PyStrip(data.series),
     course_code |-> MarksheetNormalizeCourseCode(data.course_code),
     ct_list |-> data.ct_no.v]

\* run_generate_marksheet_pipeline
run_generate_marksheet_pipeline ==
    /\ pc = "generate_marksheet"
    /\ LET convo == history \o <<UserMsg(userText)>>
       IN  /\ llmCalls' = Append(llmCalls, LlmCall("marksheet_json", convo))
           /\ \/ /\ Finish(Result("failure", "gateway", <<>>))
                 /\ stages' = Append(stages, "EXTRACT")
                 /\ UNCHANGED <<raw, decision, queries>>
              \/ \E r \in MarksheetRaws :
                   /\ raw' = r
                   /\ IF ~JsonLoads(r.shape)
                      THEN /\ Finish(Result("failure", "http_400", <<>>))
                           /\ stages' = Append(stages, "EXTRACT")
                           /\ UNCHANGED <<decision, queries>>
                      ELSE /\ decision' = r.data
                           /\ IF r.data.mode = "ask"
                              THEN /\ Finish(Result("ask", "question",
                                          <<IF r.data.question = Absent THEN sMissingInfo
                                            ELSE r.data.question>>))
                                   /\ stages' = stages \o <<"EXTRACT", "ASK">>
                                   /\ UNCHANGED queries
                              ELSE IF MarksheetMissing(r.data) # <<>>
                              THEN /\ Finish(Result("ask", "missing", MarksheetMissing(r.data)))
                                   /\ stages' = stages \o <<"EXTRACT", "ASK">>
                                   /\ UNCHANGED queries
                              ELSE IF r.data.ct_no.t # "list"
                              THEN /\ Finish(Result("ask", "ct_no_list", <<>>))
                                   /\ stages' = stages \o <<"EXTRACT", "ASK">>
                                   /\ UNCHANGED queries
                              ELSE LET sc == MarksheetScope(r.data)
                                       S == {i \in DOMAIN db.sheets :
                                               MarksheetFilter(db.sheets[i], actor.id, sc.dept,
                                                               sc.sec, sc.series,
                                                               sc.course_code, sc.ct_list)}
                                       found == {db.sheets[i].ct_no : i \in S}
                                       q == [table |-> "result_sheet", kind |-> "marksheet",
                                             scope |-> sc, teacher_id |-> actor.id,
                                             rows |-> S]
                                   IN  /\ queries' = Append(queries, q)
                                       /\ IF S = {}
                                          THEN /\ Finish(Result("answer", "no_sheets", <<>>))
                                               /\ stages' = stages \o <<"EXTRACT", "VALIDATED",
                                                                        "ACTION">>
                                          ELSE IF \E c \in Range(sc.ct_list) : c \notin found
                                          THEN /\ Finish(Result("answer", "missing_cts", <<>>))
                                               /\ stages' = stages \o <<"EXTRACT", "VALIDATED",
                                                                        "ACTION">>
                                          ELSE /\ Finish(Result("answer", "pdf", <<sc>>))
                                               /\ stages' = stages \o <<"EXTRACT", "VALIDATED",
                                                                        "ACTION", "GENERATE",
                                                                        "ANSWER">>
    /\ UNCHANGED <<path, actor, userText, toolName, history, gate, handlers, db, prev, assistant_msg, storeVars>>

\* rows the result_sheets table may hold, each with its own creation time
SheetPool ==
    << SheetRow("sh1", "t1", sCSE, sA, s23, ResultSheetNormalizeCourseCode(sCode1202sp),
                sNameDS, 2, 1),
       SheetRow("sh2", "t2", sCSE, sA, s23, ResultSheetNormalizeCourseCode(sCode1202dd),
                sNameDS, 2, 2),
       SheetRow("sh3", "t1", sCSE, sB, s22, ResultSheetNormalizeCourseCode(sCode1202),
                <<>>, 2, 3),
       SheetRow("sh4", "t1", sEEE, sB, s22, ResultSheetNormalizeCourseCode(sCode1202),
                sNameDS, 2, 4),
       SheetRow("sh5", "t1", sCSE, sA, s23, ResultSheetNormalizeCourseCode(sCode1202),
                sNameDS, 1, 5) >>

sDigits137 == <<"2","3","0","3","1","3","7">>
sDigits138 == <<"2","3","0","3","1","3","8">>

\* rows the result_entries table may hold
EntryPool ==
    << EntryRow("sh1", sDigits137, <<"1","8">>),
       EntryRow("sh2", sDigits137, <<"A">>),
       EntryRow("sh3", sDigits138, <<"2","0">>),
       EntryRow("sh4", sDigits137, <<"1","1">>),
       EntryRow("sh1", sDigits138, <<"7">>),
       EntryRow("sh5", sDigits137, <<"1","5">>) >>

TeacherRows == << [id |-> "t1", full_name |-> sRafin], [id |-> "t2", full_name |-> None] >>

\* the most rows the result_sheets table holds
MaxSheets == 3

\* the sheet tables, each with the entries of its sheets: all of them, or
\* those of one roll only
ResultTables ==
    { [sheets |-> PickRows(SheetPool, S, 1),
       entries |-> PickRows(EntryPool,
                            {i \in DOMAIN EntryPool :
                                /\ \E j \in S : SheetPool[j].id = EntryPool[i].result_sheet_id
                                /\ EntryPool[i].roll_no \in rolls}, 1)] :
        S \in {T \in SUBSET (1..Len(SheetPool)) : Cardinality(T) = Min(MaxSheets, Len(SheetPool))},
        rolls \in {{sDigits137, sDigits138}, {sDigits138}} }

----------------------------------------------------------------------------
(* generate_cover_page: cover_gen_service.py                               *)

COMMON_REQUIRED ==
    << "cover_type_no", "course_code", "course_title", "date_of_submission", "session",
       "teacher_name", "teacher_designation", "teacher_dept", "full_name", "roll_no",
       "dept", "series" >>

REQUIRED_LAB == COMMON_REQUIRED \o <<"date_of_exp">>
REQUIRED_ASSIGNMENT == COMMON_REQUIRED
REQUIRED_REPORT == COMMON_REQUIRED

\* DEPT_MAPPING.get(dept_code, dept_code)
DEPT_MAPPING(dept_code) ==
    CASE dept_code = sEEE -> <<"Department of Electrical & Electronic Engineering">>
      [] dept_code = sCSE -> <<"Department of Computer Science & Engineering">>
      [] OTHER -> dept_code

\* Student.full_name (nullable) of the profile rows
StudentFullName(student) ==
    CASE student.id = "s1" -> sRafin
      [] student.id = "c1" -> sRafin
      [] student.id = "s2" -> <<>>
      [] OTHER -> None

get_student_profile_context(student) ==
    LET dept_code == PyUpper(PyStrip(PyOr(student.dept, <<>>)))
        series_raw == PyStrip(PyOr(student.series, <<>>))
    IN  [full_name |-> PyOr(StudentFullName(student), <<>>),
         roll_no |-> PyOr(student.roll_no, <<>>),
         dept |-> DEPT_MAPPING(dept_code),
         section |-> PyOr(student.section, <<>>),
         series |-> IF series_raw # <<>> THEN <<"Series ">> \o series_raw ELSE <<>>]

\* the keys of the payload that come from the extraction
CoverExtractedKeys ==
    { "cover_type_no", "cover_type_title", "course_code", "course_title", "date_of_exp",
      "date_of_submission", "session", "teacher_name", "teacher_designation",
      "teacher_dept" }

\* the keys of the payload that come from the profile ("server truth")
CoverProfileKeys == {"full_name", "roll_no", "dept", "section", "series"}

\* a mutation: a profile key the extraction carries is taken from the extraction
MergeExtractedOverProfile(profile, extracted) ==
    [k \in CoverExtractedKeys \cup CoverProfileKeys |->
        IF k \in CoverExtractedKeys \/ extracted[k] # Absent
        THEN PyOr(DictGet(extracted[k]), <<>>)
        ELSE PyOr(profile[k], <<>>)]

\* _safe_parse_json over the pieces of the completion's text ("fence" is a
\* ``` fence): "ok" or "raise"
CoverSafeParseJson(shape) ==
    IF shape = <<>> THEN "raise"
    ELSE LET t1 == IF Head(shape) = "fence" THEN Tail(shape) ELSE shape
             text == IF Head(shape) = "fence" /\ t1 # <<>> /\ t1[Len(t1)] = "fence"
                     THEN SubSeq(t1, 1, Len(t1) - 1) ELSE t1
         IN  IF JsonLoads(text) THEN "ok"
             ELSE LET opens == {i \in DOMAIN text : HasOpen(text[i])}
                      closes == {i \in DOMAIN text : HasClose(text[i])}
                  IN  IF opens = {} \/ closes = {} THEN "raise"
                      ELSE LET s == CHOOSE i \in opens : \A j \in opens : i <= j
                               e == CHOOSE i \in closes : \A j \in closes : j <= i
                           IN  IF e < s \/ (e = s /\ text[s] # "obj") THEN "raise"
                               ELSE IF JsonLoads(SubSeq(text, s, e)) THEN "ok"
                               ELSE "raise"

\* _merge: the extraction's keys (missing or falsy: "") and the profile's
_merge(profile, extracted) ==
    [k \in CoverExtractedKeys \cup CoverProfileKeys |->
        IF k \in CoverExtractedKeys
        THEN PyOr(DictGet(extracted[k]), <<>>)
        ELSE PyOr(profile[k], <<>>)]

\* a mutation: a value of blanks only counts as given
MissingFieldsNoStrip(payload, cover_type) ==
    LET required == CASE cover_type = "lab_report" -> REQUIRED_LAB
                      [] cover_type = "assignment" -> REQUIRED_ASSIGNMENT
                      [] cover_type = "report" -> REQUIRED_REPORT
                      [] OTHER -> <<>>
    IN  SelectSeq(required, LAMBDA key : payload[key] = <<>>)

_missing_fields(payload, cover_type) ==
    LET required == CASE cover_type = "lab_report" -> REQUIRED_LAB
                      [] cover_type = "assignment" -> REQUIRED_ASSIGNMENT
                      [] cover_type = "report" -> REQUIRED_REPORT
                      [] OTHER -> <<>>
    IN  SelectSeq(required, LAMBDA key : PyStrip(payload[key]) = <<>>)

\* what the cover-type completion can come back as: the pieces of its text
\* and the cover_type of its object
CoverTypeRaws ==
    {[shape |-> <<"obj">>, cover_type |-> t] :
        t \in {<<"lab_report">>, <<"assignment">>, <<" report ">>, <<"ask">>, <<"thesis">>, None}}
    \cup {[shape |-> sh, cover_type |-> <<"lab_report">>] :
            sh \in {<<"fence", "obj", "fence">>, <<"txt", "obj">>, <<"txt">>, <<>>,
                    <<"rbrace", "lbrace">>}}

\* (type_data.get("cover_type") or "").strip(); the three names are atoms
CoverTypeOf(t) ==
    CASE t = <<"lab_report">> -> "lab_report"
      [] t = <<"assignment">> -> "assignment"
      [] t = <<" report ">> -> "report"
      [] t = <<"ask">> -> "ask"
      [] t = None -> ""
      [] OTHER -> "other"

sX == <<"x">>
sBlank == <<" ">>

\* an extraction with every key of the prompt given, and no key of the profile
CoverFilled ==
    [k \in CoverExtractedKeys \cup CoverProfileKeys |->
        IF k = "cover_type_no" THEN sOne
        ELSE IF k \in CoverExtractedKeys THEN sX ELSE Absent]

\* an extraction that carries a name, roll, dept, section and series of its own
CoverForged == [k \in CoverExtractedKeys \cup CoverProfileKeys |->
                   IF k = "cover_type_no" THEN sOne ELSE sX]

\* the sets of keys an extraction may leave blank
CoverBlankSets ==
    {{}} \cup {{k} : k \in CoverExtractedKeys}
    \cup {{"date_of_exp", "date_of_submission"}, CoverExtractedKeys}

\* the extractions of the cover-info completion
CoverDatas ==
    {[k \in CoverExtractedKeys \cup CoverProfileKeys |->
         IF k \in B THEN v ELSE CoverFilled[k]] :
        B \in CoverBlankSets, v \in {<<>>, sBlank, None, Absent}}
    \cup {[CoverFilled EXCEPT !["cover_type_no"] = sX], CoverForged}

CoverInfoRaws ==
    {[shape |-> <<"obj">>, data |-> d] : d \in CoverDatas}
    \cup {[shape |-> sh, data |-> CoverFilled] :
            sh \in {<<"fence", "obj", "fence">>, <<"txt">>}}

\* run_cover_generator_pipeline: cover type, extraction, merge, ask for the
\* missing fields or generate the cover
run_cover_generator_pipeline ==
    /\ pc = "generate_cover_page"
    /\ LET convo == history \o <<UserMsg(userText)>>
           profile_ctx == get_student_profile_context(actor)
           type_call == LlmCall("cover_type", convo)
       IN  \/ /\ llmCalls' = Append(llmCalls, type_call)
              /\ Finish(Result("failure", "gateway", <<>>))
              /\ UNCHANGED <<raw, decision, stages>>
           \/ \E rt \in CoverTypeRaws :
                LET cover_type == CoverTypeOf(rt.cover_type)
                    info_call == LlmCall("cover_info",
                                     <<Msg("system", "cover_type", <<cover_type>>)>> \o convo)
                IN  IF CoverSafeParseJson(rt.shape) = "raise"
                    THEN /\ llmCalls' = Append(llmCalls, type_call)
                         /\ Finish(Result("text", "raw_type", <<>>))
                         /\ stages' = Append(stages, "TYPE_DETECT")
                         /\ UNCHANGED <<raw, decision>>
                    ELSE IF cover_type \notin {"lab_report", "assignment", "report"}
                    THEN /\ llmCalls' = Append(llmCalls, type_call)
                         /\ Finish(Result("ask", "cover_type", <<>>))
                         /\ stages' = stages \o <<"TYPE_DETECT", "ASK">>
                         /\ UNCHANGED <<raw, decision>>
                    ELSE \/ /\ llmCalls' = llmCalls \o <<type_call, info_call>>
                            /\ Finish(Result("failure", "gateway", <<>>))
                            /\ stages' = stages \o <<"TYPE_DETECT", "EXTRACT">>
                            /\ UNCHANGED <<raw, decision>>
                         \/ \E r \in CoverInfoRaws :
                              LET payload == _merge(profile_ctx, r.data)
                                  missing == _missing_fields(payload, cover_type)
                                  ask_call == LlmCall("cover_missing",
                                                  <<Msg("system", "missing", missing)>> \o convo)
                              IN  /\ raw' = r
                                  /\ IF CoverSafeParseJson(r.shape) = "raise"
                                     THEN /\ llmCalls' = llmCalls \o <<type_call, info_call>>
                                          /\ Finish(Result("text", "raw", <<>>))
                                          /\ stages' = stages \o <<"TYPE_DETECT", "EXTRACT">>
                                          /\ UNCHANGED decision
                                     ELSE /\ decision' = [mode |-> "cover", cover_type |-> cover_type,
                                                          payload |-> payload, missing |-> missing]
                                          /\ IF missing # <<>>
                                             THEN /\ llmCalls' = llmCalls \o <<type_call, info_call, ask_call>>
                                                  /\ stages' = stages \o <<"TYPE_DETECT", "EXTRACT", "ASK">>
                                                  /\ \/ Finish(Result("ask", "missing", missing))
                                                     \/ Finish(Result("failure", "gateway", <<>>))
                                             ELSE /\ llmCalls' = llmCalls \o <<type_call, info_call>>
                                                  /\ IF ~PyIsDigit(PyStrip(payload["cover_type_no"]))
                                                     THEN /\ Finish(Result("ask", "cover_no", <<>>))
                                                          /\ stages' = stages \o <<"TYPE_DETECT", "EXTRACT", "ASK">>
                                                     ELSE /\ Finish(Result("answer", "pdf", <<payload>>))
                                                          /\ stages' = stages \o <<"TYPE_DETECT", "EXTRACT",
                                                                                   "VALIDATED", "GENERATE",
                                                                                   "ANSWER">>
    /\ UNCHANGED <<path, actor, userText, toolName, history, gate, queries, handlers,
                   db, prev, assistant_msg, storeVars>>


----------------------------------------------------------------------------
(* send_message of the chat routers, after the pipeline                    *)

\* a mutation: the assistant message is stored whatever the pipeline did
SendMessageStoresAlways ==
    /\ pc = "done" /\ path \in {"run_tool_chat", "run_tool_chat_teacher"}
    /\ pc' = "sent"
    /\ assistant_msg' = Msg("assistant", result.detail, result.body)
    /\ UNCHANGED <<path, actor, userText, toolName, history, gate, raw, decision,
                   queries, llmCalls, handlers, stages, result, db, prev, storeVars>>

\* the end of send_message: an exception of the pipeline is re-raised as
\* HTTP 500 before the assistant message is built; else the text the pipeline
\* returned is stored as the assistant's message
send_message ==
    /\ pc = "done" /\ path \in {"run_tool_chat", "run_tool_chat_teacher"}
    /\ pc' = "sent"
    /\ assistant_msg' = IF result.kind = "failure" THEN NoMessage
                        ELSE Msg("assistant", result.detail, result.body)
    /\ UNCHANGED <<path, actor, userText, toolName, history, gate, raw, decision,
                   queries, llmCalls, handlers, stages, result, db, prev, storeVars>>

----------------------------------------------------------------------------
(* The specification                                                       *)

\* the tables a turn of the tool reads; the other tables are left empty
DbFor(tool) ==
    CASE tool = "view_notices" ->
            {[EmptyDb EXCEPT !.notices = n] : n \in NoticeTables}
      [] tool \in {"check_marks", "generate_marksheet"} ->
            {[EmptyDb EXCEPT !.sheets = t.sheets, !.entries = t.entries,
                             !.teachers = TeacherRows] : t \in ResultTables}
      [] tool = "generate_cover_page" -> {EmptyDb}
      [] OTHER ->
            {[EmptyDb EXCEPT !.materials = m] : m \in MaterialTables}

\* who may call an entry point, and with which tool_name
Callers(p) ==
    CASE p = "run_tool_chat_teacher" -> Teachers \X TeacherAllowedTools
      [] p = "run_tool_chat" -> Students \X StudentAllowedTools
      [] OTHER -> Students \X {"find_materials", "check_marks"}

EntryPoints == {"run_tool_and_get_assistant_text", "run_tool_chat", "run_tool_chat_teacher"}

InitTurn(paths, tools) ==
    /\ pc = "start"
    /\ path \in paths
    /\ \E c \in Callers(path) :
          /\ c[2] \in tools
          /\ actor = c[1]
          /\ toolName = c[2]
    /\ userText \in UserTexts
    /\ history \in Histories
    /\ gate = NoGate
    /\ raw = NoData
    /\ decision = NoDecision
    /\ queries = <<>>
    /\ llmCalls = <<>>
    /\ handlers = <<>>
    /\ stages = <<>>
    /\ result = NoResult
    /\ db \in DbFor(toolName)
    /\ prev = NoPrev
    /\ assistant_msg = NoMessage
    /\ StoreIdle

Init == InitTurn(EntryPoints, ToolsInitRegistry)

Next ==
    \/ StudentGate
    \/ StudentBranch
    \/ StudentExtract
    \/ run_tool_chat
    \/ run_tool_chat_teacher
    \/ run_find_materials_pipeline
    \/ run_view_notices_pipeline
    \/ CheckMarksExtract
    \/ CheckMarksLookup
    \/ run_generate_marksheet_pipeline
    \/ run_cover_generator_pipeline
    \/ send_message

Spec == Init /\ [][Next]_vars

\* the messages of the turn's answer completion of check_marks (<<>>: none)
AnswerMessagesOf(calls) ==
    LET S == {i \in DOMAIN calls : calls[i].prompt = "check_marks_answer"}
    IN  IF S = {} THEN <<>> ELSE calls[CHOOSE i \in S : TRUE].messages

\* the next message of the same student, over the same tables, after a
\* check_marks turn that reached its answer completion
NextTurn ==
    /\ pc = "done"
    /\ prev.turn = 0
    /\ AnswerMessagesOf(llmCalls) # <<>>
    /\ prev' = [turn |-> 1, userText |-> userText, history |-> history,
                extracted |-> <<decision.course_code, decision.ct_no>>,
                messages |-> AnswerMessagesOf(llmCalls)]
    /\ pc' = "start"
    /\ userText' \in UserTexts
    /\ history' \in Histories
    /\ gate' = NoGate
    /\ raw' = NoData
    /\ decision' = NoDecision
    /\ queries' = <<>>
    /\ llmCalls' = <<>>
    /\ handlers' = <<>>
    /\ stages' = <<>>
    /\ result' = NoResult
    /\ UNCHANGED <<path, actor, toolName, db, assistant_msg, storeVars>>

InitTwoRuns == InitTurn({"run_tool_chat"}, {"check_marks"})

NextTwoRuns ==
    \/ run_tool_chat
    \/ CheckMarksExtract
    \/ CheckMarksLookup
    \/ NextTurn

\* two check_marks turns of one student over the same tables
SpecTwoRuns == InitTwoRuns /\ [][NextTwoRuns]_vars

\* course codes of the departments' courses, as <<letters, digits>>
sARCH == <<"A","R","C","H">>
sME == <<"M","E">>
s1202 == <<"1","2","0","2">>
s1101 == <<"1","1","0","1">>
CourseCodes == {<<sCSE, s1202>>, <<sEEE, s1101>>, <<sME, s1101>>, <<sARCH, s1101>>}

\* the separators a spelling may put between the letters and the digits
Separators == {<<>>, <<" ">>, <<"_">>, <<"-">>}

\* the letters in upper case, in lower case, or capitalized
LetterCases(letters) ==
    {PyUpper(letters), PyLower(letters), <<Head(letters)>> \o PyLower(Tail(letters))}

\* the spellings of one course code
Spellings(code) ==
    {l \o sep \o code[2] : l \in LetterCases(code[1]), sep \in Separators}

\* the course-code normalizer of a tool's service
NormalizerOf(tool, s) ==
    CASE tool = "find_materials" -> _norm_course_code(s)
      [] tool = "check_marks" -> CheckMarksNormalizeCourseCode(s)
      [] OTHER -> MarksheetNormalizeCourseCode(s)

\* two spellings of one course code, handed to the normalizer of one tool
InitCourseCode ==
    /\ pc = "start"
    /\ path = "normalize_course_code"
    /\ toolName \in {"find_materials", "check_marks", "generate_marksheet"}
    /\ actor \in {CHOOSE a \in Students : a.id = "s1"}
    /\ userText = <<>>
    /\ history = <<>>
    /\ gate = NoGate
    /\ \E code \in CourseCodes :
          \E a, b \in Spellings(code) :
             raw = [shape |-> <<>>, data |-> [code |-> code, a |-> a, b |-> b]]
    /\ decision = NoDecision
    /\ queries = <<>>
    /\ llmCalls = <<>>
    /\ handlers = <<>>
    /\ stages = <<>>
    /\ result = NoResult
    /\ db = EmptyDb
    /\ prev = NoPrev
    /\ assistant_msg = NoMessage
    /\ StoreIdle

\* the normalizer applied to both spellings
NormalizeCourseCode ==
    /\ pc = "start" /\ path = "normalize_course_code"
    /\ decision' = [mode |-> "normalized",
                    a |-> NormalizerOf(toolName, raw.data.a),
                    b |-> NormalizerOf(toolName, raw.data.b)]
    /\ pc' = "normalized"
    /\ UNCHANGED <<path, actor, userText, toolName, history, gate, raw, queries,
                   llmCalls, handlers, stages, result, db, prev, assistant_msg, storeVars>>

\* the normalizer applied to its own output
NormalizeCourseCodeAgain ==
    /\ pc = "normalized" /\ path = "normalize_course_code"
    /\ Finish(Result("course_code", "", <<NormalizerOf(toolName, decision.a)>>))
    /\ UNCHANGED <<path, actor, userText, toolName, history, gate, raw, decision,
                   queries, llmCalls, handlers, stages, db, prev, assistant_msg, storeVars>>

NextCourseCode ==
    \/ NormalizeCourseCode
    \/ NormalizeCourseCodeAgain

\* the course-code normalizers over the spellings of one code
SpecCourseCode == InitCourseCode /\ [][NextCourseCode]_vars

----------------------------------------------------------------------------
(* _score_expr over pairs of rows of one search                            *)

sCode2100Stored == <<"c","s","e","-","2","1","0","0">>
sNameAlgo == <<"A","l","g","o","r","i","t","h","m","s">>
sData == <<"d","a","t","a">>

\* class notes as a table may hold them: the course code as uploaded (in
\* either case) or of another course, a name, a topic and a writer or none
ScoreRows ==
    {MaterialRow("m", "class_note", code, name, topic, by, NoInt, NoInt, sCSE, sA, s23,
                 1, FALSE, 0) :
        code \in {sCode2100, sCode2100Stored, sCode1202},
        name \in {sNameDS, sNameAlgo},
        topic \in {sTree, None},
        by \in {sRafin, None}}

\* the signals of a search for class notes, as step 2 of the handler leaves them
ScoreSignals ==
    {[course_code |-> code, course_name |-> name, topic |-> topic, written_by |-> by,
      ct_no |-> NoInt, year |-> NoInt] :
        code \in {sCode2100, None},
        name \in {sData, None},
        topic \in {sTree, None},
        by \in {sRafin, None}}

InitScore ==
    /\ pc = "start"
    /\ path = "_score_expr"
    /\ toolName = "find_materials"
    /\ actor \in {CHOOSE a \in Students : a.id = "s1"}
    /\ userText = <<>>
    /\ history = <<>>
    /\ gate = NoGate
    /\ \E f \in ScoreSignals :
          \E a, b \in ScoreRows :
             raw = [shape |-> <<>>, data |-> [f |-> f, a |-> a, b |-> b]]
    /\ decision = NoDecision
    /\ queries = <<>>
    /\ llmCalls = <<>>
    /\ handlers = <<>>
    /\ stages = <<>>
    /\ result = NoResult
    /\ db = EmptyDb
    /\ prev = NoPrev
    /\ assistant_msg = NoMessage
    /\ StoreIdle

\* the score column of the two rows
ScoreBoth ==
    /\ pc = "start" /\ path = "_score_expr"
    /\ decision' = [mode |-> "scored",
                    a |-> _score_expr(raw.data.a, raw.data.f),
                    b |-> _score_expr(raw.data.b, raw.data.f)]
    /\ pc' = "scored"
    /\ UNCHANGED <<path, actor, userText, toolName, history, gate, raw, queries,
                   llmCalls, handlers, stages, result, db, prev, assistant_msg, storeVars>>

NextScore == ScoreBoth

\* the match_score of two rows under one set of signals
SpecScore == InitScore /\ [][NextScore]_vars

----------------------------------------------------------------------------
(* Output files of the document generators                                 *)

\* re.sub(r"[^A-Za-z0-9_\-]", "", text)
RECURSIVE DropUnsafe(_)
DropUnsafe(s) ==
    IF s = <<>> THEN <<>>
    ELSE (IF IsAlnumCh(Head(s)) \/ Head(s) \in {"_", "-"} THEN <<Head(s)>> ELSE <<>>)
         \o DropUnsafe(Tail(s))

\* _safe_filename of cover_gen_service.py
CoverSafeFilename(text) == DropUnsafe(PyReplaceCh(PyStrip(text), " ", <<"_">>))

\* _safe_filename of generate_marksheet_service.py
MarksheetSafeFilename(s) ==
    [i \in DOMAIN s |-> IF IsAlnumCh(s[i]) \/ s[i] \in {"-", "_"} THEN s[i] ELSE "_"]

\* the last second the clock reaches
MaxClock == 2

\* datetime.utcnow().strftime("%Y%m%d_%H%M%S"): one text per second
Strftime(t) == <<"T", Digits10[t + 1]>>

\* "_".join(map(str, sorted(ct_list))) of a sorted list of digits
RECURSIVE JoinUnderscore(_)
JoinUnderscore(l) ==
    IF l = <<>> THEN <<>>
    ELSE IF Len(l) = 1 THEN <<Head(l)>>
    ELSE <<Head(l), "_">> \o JoinUnderscore(Tail(l))

type_token(cover_type) ==
    CASE cover_type = "lab_report" -> <<"E","x","p">>
      [] cover_type = "assignment" -> <<"A","s","s">>
      [] OTHER -> <<"R","e","p","o","r","t">>

\* filename of run_cover_generator_pipeline
CoverFilename(d, t) ==
    CoverSafeFilename(d.course_code) \o <<"_">> \o type_token(d.cover_type) \o <<"-">>
    \o CoverSafeFilename(d.cover_type_no) \o <<"_","R","o","l","l","-">>
    \o CoverSafeFilename(d.roll_no) \o <<"_">> \o Strftime(t) \o <<".pdf">>

\* filename of run_generate_marksheet_pipeline
MarksheetFilename(d, t) ==
    MarksheetSafeFilename(d.course_code) \o <<"_","C","T","-">> \o JoinUnderscore(d.ct_list)
    \o <<"_">> \o MarksheetSafeFilename(d.dept) \o <<"-">> \o MarksheetSafeFilename(d.series)
    \o <<"-">> \o MarksheetSafeFilename(d.section) \o <<"_">> \o Strftime(t) \o <<".pdf">>

\* document runs that reached the generator: the fields of the file name
DocRuns ==
    {[kind |-> "cover", pc |-> "pending", filename |-> <<>>,
      data |-> [course_code |-> c, cover_type |-> ct, cover_type_no |-> <<"1">>,
                roll_no |-> r]] :
        c \in {sCode1202, sCode1202sp}, ct \in {"lab_report", "assignment"},
        r \in {sRoll1, sRoll2}}
    \cup {[kind |-> "marksheet", pc |-> "pending", filename |-> <<>>,
           data |-> [course_code |-> sCode1202, ct_list |-> l, dept |-> sCSE,
                     series |-> s23, section |-> sec]] :
            l \in {<<"1">>, <<"1", "2">>}, sec \in {sA, sB}}

InitDocs ==
    /\ pc = "start"
    /\ path = "generate_document"
    /\ toolName = "generate_document"
    /\ actor \in {CHOOSE a \in Students : a.id = "s1"}
    /\ userText = <<>>
    /\ history = <<>>
    /\ gate = NoGate
    /\ raw = NoData
    /\ decision = NoDecision
    /\ queries = <<>>
    /\ llmCalls = <<>>
    /\ handlers = <<>>
    /\ stages = <<>>
    /\ result = NoResult
    /\ db = EmptyDb
    /\ prev = NoPrev
    /\ assistant_msg = NoMessage
    /\ now = 0
    /\ files = <<>>
    /\ rooms = {}
    /\ msgTable = <<>>
    /\ requests \in [1..2 -> DocRuns]

\* a second passes
Tick ==
    /\ now < MaxClock
    /\ now' = now + 1
    /\ UNCHANGED <<pc, path, actor, userText, toolName, history, gate, raw, decision,
                   queries, llmCalls, handlers, stages, result, db, prev, assistant_msg,
                   files, rooms, msgTable, requests>>

\* the file name is built and the generator writes the file (open(path, "wb")
\* replaces a file of that name); the reply carries the name
WriteDocument(r, filename) ==
    /\ requests[r].pc = "pending"
    /\ files' = [n \in DOMAIN files \cup {filename} |-> IF n = filename THEN r ELSE files[n]]
    /\ requests' = [requests EXCEPT ![r].pc = "replied", ![r].filename = filename]
    /\ UNCHANGED <<pc, path, actor, userText, toolName, history, gate, raw, decision,
                   queries, llmCalls, handlers, stages, result, db, prev, assistant_msg,
                   now, rooms, msgTable>>

generate_ruet_cover_pdf ==
    \E r \in DOMAIN requests :
        /\ path = "generate_document" /\ requests[r].kind = "cover"
        /\ WriteDocument(r, CoverFilename(requests[r].data, now))

generate_mark_sheet ==
    \E r \in DOMAIN requests :
        /\ path = "generate_document" /\ requests[r].kind = "marksheet"
        /\ WriteDocument(r, MarksheetFilename(requests[r].data, now))

NextDocs ==
    \/ Tick
    \/ generate_ruet_cover_pdf
    \/ generate_mark_sheet

\* two document-generation runs and the clock
SpecDocs == InitDocs /\ [][NextDocs]_vars

----------------------------------------------------------------------------
(* Chat rooms and messages: the chat routers and chat_service.py           *)

\* a NULL owner column
NoId == "<None>"

ChatRoom(id, role, owner) ==
    [id |-> id, owner_role |-> role,
     owner_student_id |-> IF role = "student" THEN owner ELSE NoId,
     owner_cr_id |-> IF role = "cr" THEN owner ELSE NoId,
     owner_teacher_id |-> IF role = "teacher" THEN owner ELSE NoId]

\* the rooms of two students and a CR
RoomRows ==
    {ChatRoom("r1", "student", "s1"), ChatRoom("r2", "student", "s2"),
     ChatRoom("r3", "cr", "c1")}

Message(room, role, content, at) ==
    [chat_room_id |-> room, sender_role |-> role, content |-> content, created_at |-> at]

\* the messages of three earlier turns of room r1 and one turn of room r2
OldMessages ==
    << Message("r1", "student", "u", 1), Message("r1", "assistant", "a", 2),
       Message("r2", "student", "u", 3), Message("r1", "student", "u", 4),
       Message("r1", "assistant", "a", 5), Message("r2", "assistant", "a", 6),
       Message("r1", "student", "u", 7), Message("r1", "assistant", "a", 8) >>

\* the authenticated callers: get_current_student / get_current_cr
ChatCallers == {[role |-> "student", id |-> "s1"], [role |-> "student", id |-> "s2"],
                [role |-> "cr", id |-> "c1"]}

\* a mutation: the room is looked up by its id alone
RoomOr404AnyOwner(table, room_id, caller) ==
    {room \in table : room.id = room_id}

\* _get_student_room_or_404 / _get_cr_room_or_404 / _get_teacher_room_or_404:
\* the rows the query matches ({}: 404)
RoomOr404(table, room_id, caller) ==
    {room \in table :
        /\ room.id = room_id
        /\ room.owner_role = caller.role
        /\ CASE caller.role = "student" -> room.owner_student_id = caller.id
             [] caller.role = "cr" -> room.owner_cr_id = caller.id
             [] OTHER -> room.owner_teacher_id = caller.id}

\* positions S of the table by created_at descending
RECURSIVE OrderByCreatedDesc(_, _)
OrderByCreatedDesc(table, S) ==
    IF S = {} THEN <<>>
    ELSE LET m == CHOOSE i \in S : \A j \in S : table[i].created_at >= table[j].created_at
         IN  <<m>> \o OrderByCreatedDesc(table, S \ {m})

Reversed(s) == [i \in DOMAIN s |-> s[Len(s) + 1 - i]]

\* a mutation: the last messages of every room
FetchLastMessagesAnyRoom(table, room_id, limit) ==
    LET o == OrderByCreatedDesc(table, DOMAIN table)
        page == Reversed(SubSeq(o, 1, Min(Len(o), limit)))
    IN  [i \in DOMAIN page |-> table[page[i]]]

\* _fetch_last_messages: filter by room, order_by(desc(created_at)), limit,
\* reversed
_fetch_last_messages(table, room_id, limit) ==
    LET S == {i \in DOMAIN table : table[i].chat_room_id = room_id}
        o == OrderByCreatedDesc(table, S)
        page == Reversed(SubSeq(o, 1, Min(Len(o), limit)))
    IN  [i \in DOMAIN page |-> table[page[i]]]

\* get_room_messages: filter by room, order_by(created_at.asc())
MessagesOfRoom(table, room_id) ==
    LET S == {i \in DOMAIN table : table[i].chat_room_id = room_id}
        o == Reversed(OrderByCreatedDesc(table, S))
    IN  [i \in DOMAIN o |-> table[o[i]]]

\* the requests of the chat endpoints: POST and GET rooms/{room_id}/messages
ChatRequest(kind, caller, room_id) ==
    [kind |-> kind, caller |-> caller, room_id |-> room_id, pc |-> "new",
     status |-> 0, history |-> <<>>, reply |-> <<>>, stored_at |-> 0, replied_at |-> 0]

ChatRequests ==
    {ChatRequest(kind, caller, room_id) :
        kind \in {"send", "list"}, caller \in ChatCallers, room_id \in {"r1", "r2", "r3"}}

InitChat ==
    /\ pc = "start"
    /\ path = "chat_router"
    /\ toolName = "find_materials"
    /\ actor \in {CHOOSE a \in Students : a.id = "s1"}
    /\ userText = <<>>
    /\ history = <<>>
    /\ gate = NoGate
    /\ raw = NoData
    /\ decision = NoDecision
    /\ queries = <<>>
    /\ llmCalls = <<>>
    /\ handlers = <<>>
    /\ stages = <<>>
    /\ result = NoResult
    /\ db = EmptyDb
    /\ prev = NoPrev
    /\ assistant_msg = NoMessage
    /\ files = <<>>
    /\ rooms = RoomRows
    /\ msgTable \in {<<>>, OldMessages}
    /\ now = Len(msgTable) + 1
    /\ requests \in [1..2 -> ChatRequests]

ChatUnchanged ==
    UNCHANGED <<pc, path, actor, userText, toolName, history, gate, raw, decision,
                queries, llmCalls, handlers, stages, result, db, prev, assistant_msg,
                files, rooms>>

\* send_message up to its first commit: the room of the caller or 404, then
\* the user's message is stored
SendMessageStore(r) ==
    /\ requests[r].kind = "send" /\ requests[r].pc = "new"
    /\ IF RoomOr404(rooms, requests[r].room_id, requests[r].caller) = {}
       THEN /\ requests' = [requests EXCEPT ![r].pc = "done", ![r].status = 404]
            /\ UNCHANGED <<msgTable, now>>
       ELSE /\ msgTable' = Append(msgTable,
                                  Message(requests[r].room_id, requests[r].caller.role,
                                          "u", now))
            /\ now' = now + 1
            /\ requests' = [requests EXCEPT ![r].pc = "stored", ![r].stored_at = now]
    /\ ChatUnchanged

\* the pipeline reads the last messages of the room
FetchHistory(r) ==
    /\ requests[r].kind = "send" /\ requests[r].pc = "stored"
    /\ requests' = [requests EXCEPT
                       ![r].pc = "fetched",
                       ![r].history = _fetch_last_messages(msgTable, requests[r].room_id, 6)]
    /\ UNCHANGED <<msgTable, now>>
    /\ ChatUnchanged

\* the end of send_message: the pipeline raised (HTTP 500), or its text is
\* stored as the assistant's message
SendMessageReply(r) ==
    /\ requests[r].kind = "send" /\ requests[r].pc = "fetched"
    /\ \/ /\ requests' = [requests EXCEPT ![r].pc = "done", ![r].status = 500]
          /\ UNCHANGED <<msgTable, now>>
       \/ /\ msgTable' = Append(msgTable, Message(requests[r].room_id, "assistant", "a", now))
          /\ now' = now + 1
          /\ requests' = [requests EXCEPT ![r].pc = "done", ![r].status = 201,
                                          ![r].replied_at = now]
    /\ ChatUnchanged

\* get_room_messages: the room of the caller or 404, then its messages by
\* created_at ascending
get_room_messages(r) ==
    /\ requests[r].kind = "list" /\ requests[r].pc = "new"
    /\ IF RoomOr404(rooms, requests[r].room_id, requests[r].caller) = {}
       THEN requests' = [requests EXCEPT ![r].pc = "done", ![r].status = 404]
       ELSE requests' = [requests EXCEPT
                            ![r].pc = "done", ![r].status = 200,
                            ![r].reply = MessagesOfRoom(msgTable, requests[r].room_id)]
    /\ UNCHANGED <<msgTable, now>>
    /\ ChatUnchanged

NextChat ==
    \E r \in 1..2 :
        /\ path = "chat_router"
        /\ \/ SendMessageStore(r)
           \/ FetchHistory(r)
           \/ SendMessageReply(r)
           \/ get_room_messages(r)

\* two requests of the chat endpoints over the same tables
SpecChat == InitChat /\ [][NextChat]_vars

----------------------------------------------------------------------------
(* Result sheets of the teachers: sheet_generator_router.py                *)

\* the sheets a teacher's requests start from: CT 1 and CT 2 of one course
\* and section, by teacher t1
StoredSheets ==
    << SheetRow("sh1", "t1", sCSE, sA, s23, ResultSheetNormalizeCourseCode(sCode1202),
                sNameDS, 1, 1),
       SheetRow("sh2", "t1", sCSE, sA, s23, ResultSheetNormalizeCourseCode(sCode1202),
                sNameDS, 2, 2) >>

\* POST /result-sheets/ and PATCH /result-sheets/{sheet_id}: the teacher, the
\* sheet named (PATCH), and the ct_no of the payload (unset: a PATCH without
\* fields); the other fields of the payload are those of StoredSheets
SheetRequest(kind, teacher, sheet_id, unset, ct) ==
    [kind |-> kind, teacher |-> teacher, sheet_id |-> sheet_id, unset |-> unset,
     ct_no |-> ct, pc |-> "new", status |-> 0, next_ct_no |-> 0]

SheetRequests ==
    {SheetRequest("create", t, "", FALSE, ct) : t \in {"t1", "t2"}, ct \in 1..2}
    \cup {SheetRequest("update", t, id, FALSE, ct) :
             t \in {"t1", "t2"}, id \in {"sh1", "sh2"}, ct \in 1..2}
    \cup {SheetRequest("update", t, id, TRUE, 0) : t \in {"t1", "t2"}, id \in {"sh1", "sh2"}}

InitSheets ==
    /\ pc = "start"
    /\ path = "result_sheets"
    /\ toolName = "generate_marksheet"
    /\ actor \in {CHOOSE a \in Teachers : a.id = "t1"}
    /\ userText = <<>>
    /\ history = <<>>
    /\ gate = NoGate
    /\ raw = NoData
    /\ decision = NoDecision
    /\ queries = <<>>
    /\ llmCalls = <<>>
    /\ handlers = <<>>
    /\ stages = <<>>
    /\ result = NoResult
    /\ \E n \in 0..Len(StoredSheets) :
          db = [EmptyDb EXCEPT !.sheets = SubSeq(StoredSheets, 1, n)]
    /\ prev = NoPrev
    /\ assistant_msg = NoMessage
    /\ files = <<>>
    /\ rooms = {}
    /\ msgTable = <<>>
    /\ now = Len(StoredSheets) + 1
    /\ requests \in [1..2 -> SheetRequests]

SheetsUnchanged ==
    UNCHANGED <<pc, path, actor, userText, toolName, history, gate, raw, decision,
                queries, llmCalls, handlers, stages, result, prev, assistant_msg,
                files, rooms, msgTable>>

\* the conflict query of create_result_sheet and update_result_sheet: a sheet
\* of the teacher with the same dept, section, series, course_code and ct_no
\* (update: other than the sheet itself)
SheetExists(sheets, teacher, like, ct, except_id) ==
    \E i \in DOMAIN sheets :
        /\ sheets[i].id # except_id
        /\ sheets[i].created_by_teacher_id = teacher
        /\ sheets[i].dept = like.dept
        /\ sheets[i].section = like.section
        /\ sheets[i].series = like.series
        /\ sheets[i].course_code = like.course_code
        /\ sheets[i].ct_no = ct

\* get_teacher_sheet_or_404: the positions the query matches ({}: 404)
get_teacher_sheet_or_404(sheets, sheet_id, teacher) ==
    {i \in DOMAIN sheets :
        sheets[i].id = sheet_id /\ sheets[i].created_by_teacher_id = teacher}

\* create_result_sheet up to its conflict query: 409, or go on to the insert
CreateSheetCheck(r) ==
    /\ requests[r].kind = "create" /\ requests[r].pc = "new"
    /\ IF SheetExists(db.sheets, requests[r].teacher, StoredSheets[1], requests[r].ct_no, "")
       THEN requests' = [requests EXCEPT ![r].pc = "done", ![r].status = 409]
       ELSE requests' = [requests EXCEPT ![r].pc = "checked",
                                         ![r].next_ct_no = requests[r].ct_no]
    /\ UNCHANGED <<db, now>>
    /\ SheetsUnchanged

\* create_result_sheet: db.add(sheet), db.commit()
CreateSheetCommit(r) ==
    /\ requests[r].kind = "create" /\ requests[r].pc = "checked"
    /\ db' = [db EXCEPT !.sheets =
                 Append(@, SheetRow(IF r = 1 THEN "n1" ELSE "n2", requests[r].teacher,
                                    StoredSheets[1].dept, StoredSheets[1].section,
                                    StoredSheets[1].series, StoredSheets[1].course_code,
                                    StoredSheets[1].course_name, requests[r].next_ct_no, now))]
    /\ now' = now + 1
    /\ requests' = [requests EXCEPT ![r].pc = "done", ![r].status = 201]
    /\ SheetsUnchanged

\* update_result_sheet up to its conflict query: 404, the sheet as it is (no
\* field set), 409, or go on to the update
UpdateSheetCheck(r) ==
    /\ requests[r].kind = "update" /\ requests[r].pc = "new"
    /\ LET found == get_teacher_sheet_or_404(db.sheets, requests[r].sheet_id,
                                             requests[r].teacher)
       IN  IF found = {}
           THEN requests' = [requests EXCEPT ![r].pc = "done", ![r].status = 404]
           ELSE IF requests[r].unset
           THEN requests' = [requests EXCEPT ![r].pc = "done", ![r].status = 200]
           ELSE LET sheet == db.sheets[CHOOSE i \in found : TRUE]
                IN  IF SheetExists(db.sheets, requests[r].teacher, sheet, requests[r].ct_no,
                                   requests[r].sheet_id)
                    THEN requests' = [requests EXCEPT ![r].pc = "done", ![r].status = 409]
                    ELSE requests' = [requests EXCEPT ![r].pc = "checked",
                                                      ![r].next_ct_no = requests[r].ct_no]
    /\ UNCHANGED <<db, now>>
    /\ SheetsUnchanged

\* update_result_sheet: the fields are set, db.commit()
UpdateSheetCommit(r) ==
    /\ requests[r].kind = "update" /\ requests[r].pc = "checked"
    /\ db' = [db EXCEPT !.sheets =
                 [i \in DOMAIN @ |->
                     IF @[i].id = requests[r].sheet_id
                     THEN [@[i] EXCEPT !.ct_no = requests[r].next_ct_no]
                     ELSE @[i]]]
    /\ requests' = [requests EXCEPT ![r].pc = "done", ![r].status = 200]
    /\ UNCHANGED now
    /\ SheetsUnchanged

NextSheets ==
    \E r \in 1..2 :
        /\ path = "result_sheets"
        /\ \/ CreateSheetCheck(r)
           \/ CreateSheetCommit(r)
           \/ UpdateSheetCheck(r)
           \/ UpdateSheetCommit(r)

\* two requests of a teacher's result-sheet endpoints over one table
SpecSheets == InitSheets /\ [][NextSheets]_vars

----------------------------------------------------------------------------
(* Claims                                                                  *)

\* C1: in run_tool_and_get_assistant_text, the validated decision that reaches
\* the ask branch or the tool handler has the dept of the actor's profile and
\* the series of the actor's profile (None when the profile has none),
\* whatever dept / series the planner's output carried.
C1_DecisionCarriesProfileScope ==
    (path = "run_tool_and_get_assistant_text" /\ decision.mode # "none")
        => /\ decision.dept = actor.dept
           /\ decision.series = actor.series

\* C1 witness: a search ran although the planner's output named another dept
C1_Witness ==
    /\ path = "run_tool_and_get_assistant_text" /\ pc = "done"
    /\ handlers = <<"find_materials_handler">>
    /\ raw.data.dept = sEEE /\ raw.data.series = s22
    /\ actor.dept = sCSE /\ actor.series = s23
    /\ decision.dept = sCSE

\* the texts that hold one of the personal-information key phrases, in any case
PersonalTexts == {t \in UserTexts : \E k \in PersonalKeywords : PyContains(PyLower(t), k)}

\* the turn's text holds one of the personal-information key phrases
HasPersonalPhrase == userText \in PersonalTexts

\* the branch the gate's decision stands for
Decided ==
    IF gate.intent = "blocked" \/ HasPersonalPhrase THEN "blocked"
    ELSE IF gate.intent \in {"general_chat", "neura_chat"} THEN "chat"
    ELSE "tool"

\* the actor's own scope, as text without surrounding blanks
OwnScope == [dept |-> _norm_text(actor.dept), sec |-> _norm_text(actor.section),
             series |-> actor.series]

\* C2: every material query of find_materials is filtered by the actor's own
\* dept and series, and by the actor's own section when the actor has one;
\* no value of the extraction is the value of a filter.
C2_MaterialQueriesUseOwnScope ==
    \A i \in DOMAIN queries :
        queries[i].table \in MaterialTypes
            => /\ queries[i].scope.dept = OwnScope.dept
               /\ queries[i].scope.series = OwnScope.series
               /\ Truthy(OwnScope.sec) => queries[i].scope.sec = OwnScope.sec

\* C3: the dept and series by which generate_marksheet selects ResultSheet
\* rows are the requesting actor's profile values, never those of the JSON.
C3_MarksheetUsesOwnScope ==
    \A i \in DOMAIN queries :
        queries[i].kind = "marksheet"
            => /\ queries[i].scope.dept = actor.dept
               /\ queries[i].scope.series = actor.series

\* C4: every notice view_notices retrieves has the student's dept and series
\* and a section that is the student's normalized section or null; no
\* embedded notice with a null section in the student's dept and series is
\* filtered out; a student without dept or series gets no notices.
C4_NoticeScope ==
    (toolName = "view_notices" /\ pc = "done" /\ result.kind = "answer")
        => /\ \A k \in Range(result.body) :
                 /\ db.notices[k].dept = actor.dept
                 /\ db.notices[k].series = actor.series
                 /\ db.notices[k].sec \in {_normalize_section(actor.section), None}
           /\ \A k \in DOMAIN db.notices :
                 ( /\ db.notices[k].dept = actor.dept
                   /\ db.notices[k].series = actor.series
                   /\ db.notices[k].sec = None
                   /\ db.notices[k].vector_embeddings
                   /\ Len(db.notices) <= top_k )
                     => k \in Range(result.body)
           /\ (~Truthy(actor.dept) \/ ~Truthy(actor.series)) => result.body = <<>>

\* C4 witness: a student of section A got a null-section notice and a notice
\* of section A, and a notice of the table was left out
C4_Witness ==
    /\ toolName = "view_notices" /\ pc = "done" /\ result.kind = "answer"
    /\ actor.section = sA
    /\ \E k \in Range(result.body) : db.notices[k].sec = None
    /\ \E k \in Range(result.body) : db.notices[k].sec = sA
    /\ \E k \in DOMAIN db.notices : k \notin Range(result.body)

\* the lookup of the turn that found an entry (check_marks)
MarksFound == {i \in DOMAIN queries : queries[i].kind = "lookup" /\ queries[i].entry # 0}

\* C5 as stated: the entry check_marks answers from belongs to a sheet of the
\* student's dept and series (and section, when the student has one) whose
\* course code and ct_no equal the extracted ones, and its roll_no is the
\* digits of the profile's roll number.
C5_EntryOfOwnSheetSameCode ==
    \A i \in MarksFound :
        LET sheet == db.sheets[queries[i].sheet]
            entry == db.entries[queries[i].entry]
        IN  /\ sheet.dept = actor.dept /\ sheet.series = actor.series
            /\ Truthy(actor.section) => sheet.section = actor.section
            /\ sheet.course_code = decision.course_code
            /\ sheet.ct_no = decision.ct_no
            /\ entry.result_sheet_id = sheet.id
            /\ entry.roll_no = KeepDigits(actor.roll_no)

\* C5 amended: as C5, with the course codes equal after upper-casing and
\* dropping every character that is not a letter or a digit.
C5_EntryOfOwnSheet ==
    \A i \in MarksFound :
        LET sheet == db.sheets[queries[i].sheet]
            entry == db.entries[queries[i].entry]
        IN  /\ sheet.dept = actor.dept /\ sheet.series = actor.series
            /\ Truthy(actor.section) => sheet.section = actor.section
            /\ KeepAlnum(PyUpper(sheet.course_code)) = KeepAlnum(PyUpper(decision.course_code))
            /\ sheet.ct_no = decision.ct_no
            /\ entry.result_sheet_id = sheet.id
            /\ entry.roll_no = KeepDigits(actor.roll_no)

\* C5 witness: marks were answered from a sheet stored as CSE--1202 for an
\* extraction of CSE-1202
C5_Witness ==
    /\ pc = "done" /\ result.detail = "marks"
    /\ \E i \in MarksFound :
          /\ db.sheets[queries[i].sheet].course_code = sCode1202dd
          /\ decision.course_code = sCode1202
          /\ actor.section = sA

\* C6: two check_marks turns over the same tables with the same extracted
\* course code and ct_no send the same message list to the answer
\* completion: one DB_CONTEXT message, no user text, no history turn.
C6_AnswerMessagesIndependentOfConversation ==
    ( /\ prev.turn = 1
      /\ AnswerMessagesOf(llmCalls) # <<>>
      /\ <<decision.course_code, decision.ct_no>> = prev.extracted )
        => /\ AnswerMessagesOf(llmCalls) = prev.messages
           /\ Len(AnswerMessagesOf(llmCalls)) = 1
           /\ AnswerMessagesOf(llmCalls)[1].kind = "DB_CONTEXT"
           /\ AnswerMessagesOf(llmCalls)[1].role = "assistant"

\* C6 witness: the second turn had another text and another history
C6_Witness ==
    /\ prev.turn = 1
    /\ AnswerMessagesOf(llmCalls) # <<>>
    /\ <<decision.course_code, decision.ct_no>> = prev.extracted
    /\ prev.userText # userText
    /\ prev.history # history

C8_HandlerOnlyOnToolIntent ==
    /\ ~gate.ok => (handlers = <<>> /\ queries = <<>>)
    /\ gate.ok
         => /\ handlers # <<>> => Decided = "tool"
            /\ Decided # "tool" => (handlers = <<>> /\ queries = <<>>)
            /\ (pc = "done" /\ Decided = "blocked")
                  => (result.kind = "refusal"
                      \/ (result.kind = "failure" /\ result.detail = "gateway"))
            /\ (pc = "done" /\ Decided = "chat")
                  => (result.kind = "chat"
                      \/ (result.kind = "failure" /\ result.detail = "gateway"))

\* C8 witness: the router said neura_chat and the turn ended with the chat
\* reply, no handler invoked
C8_Witness ==
    /\ path = "run_tool_and_get_assistant_text" /\ pc = "done"
    /\ gate.intent = "neura_chat"
    /\ result.kind = "chat"
    /\ handlers = <<>> /\ queries = <<>>

\* C9: every extraction object that passed validation with mode = ask
\* carries a non-empty question, for every tool.
C9_AskCarriesQuestion ==
    decision.mode = "ask" => (decision.question # Absent /\ Truthy(decision.question))

\* the place of a stage in START -> TYPE_DETECT -> EXTRACT -> {ASK | WRONG_TOOL
\* | VALIDATED -> ACTION -> ANSWER}
StageRank(st) ==
    CASE st = "TYPE_DETECT" -> 1
      [] st = "EXTRACT" -> 2
      [] st \in {"ASK", "WRONG_TOOL", "VALIDATED"} -> 3
      [] st = "ACTION" -> 4
      [] st = "GENERATE" -> 5
      [] OTHER -> 6

\* C10: the stages of a turn come in the fixed order, each at most once, the
\* turn ends in one of the terminal outcomes, and after an extraction with
\* mode ask or wrong_tool there is no query, no answer completion and no
\* document generation.
C10_StagesInOrderAskIsTerminal ==
    /\ \A i, j \in DOMAIN stages : i < j => StageRank(stages[i]) < StageRank(stages[j])
    /\ pc = "done"
          => result.kind \in {"ask", "wrong_tool", "answer", "failure", "refusal", "chat"}
    /\ decision.mode \in {"ask", "wrong_tool"}
          => /\ queries = <<>>
             /\ \A i \in DOMAIN llmCalls :
                   llmCalls[i].prompt \notin {"answer", "check_marks_answer"}
             /\ \A i \in DOMAIN stages : stages[i] \notin {"ACTION", "GENERATE", "ANSWER"}

\* a field of the extraction output that belongs only to another sub-type is
\* populated (not null)
ForeignField(d) ==
    /\ d.material_type \in MaterialTypes
    /\ \/ d.ct_no.t # "null" /\ d.material_type # "ct_question"
       \/ d.year.t # "null" /\ d.material_type # "semester_question"
       \/ d.written_by # None /\ d.material_type # "class_note"
       \/ d.topic # None /\ d.material_type \in {"ct_question", "semester_question"}

\* C11: an extraction output of find_materials with a populated field of
\* another sub-type fails validation (the turn ends with the clarification
\* reply of a validation error, no decision is accepted), and no decision
\* that reaches the handler carries such a field.
C11_ForeignFieldFailsValidation ==
    /\ ( /\ path = "run_tool_and_get_assistant_text" /\ pc = "done"
         /\ raw # NoData /\ ParseJsonRobust(raw.shape) = "ok"
         /\ ForeignField(raw.data) )
           => (decision = NoDecision /\ result = Result("ask", "invalid", <<>>))
    /\ handlers = <<"find_materials_handler">>
           => /\ decision.ct_no # NoInt => decision.material_type = "ct_question"
              /\ decision.year # NoInt => decision.material_type = "semester_question"
              /\ decision.written_by # None => decision.material_type = "class_note"
              /\ decision.topic # None
                    => decision.material_type \in {"class_note", "lecture_slide"}

\* the rows of the table in the scope of the handler's call that satisfy the
\* predicates of a phase
PhaseRows(phase) ==
    LET sc == HandlerScope(decision, Profile(actor))
        f == HandlerSignals(decision)
    IN  {i \in DOMAIN db.materials :
            /\ db.materials[i].mtype = decision.material_type
            /\ _apply_scope_filters(db.materials[i], sc.dept, sc.sec, sc.series)
            /\ _apply_phase_filters(db.materials[i], phase, f)}

\* C12: when (with offset 0) no row in scope satisfies the strict predicates
\* and some row in scope satisfies the broad ones, find_materials_handler runs
\* the strict query, then the broad query, and returns the broad rows, which
\* are not empty.
C12_StrictThenBroadFallback ==
    ( /\ handlers = <<"find_materials_handler">>
      /\ decision.offset = 0
      /\ PhaseRows("strict") = {}
      /\ PhaseRows("broad") # {} )
        => /\ Len(queries) = 2
           /\ queries[1].kind = "strict" /\ queries[1].rows = <<>>
           /\ queries[2].kind = "broad"
           /\ result.kind = "answer"
           /\ result.body = queries[2].rows
           /\ result.body # <<>>
           /\ Range(result.body) \subseteq PhaseRows("broad")

\* C12 witness: a class note of CSE-2100 on "tree" was returned for a request
\* of CSE-1202 notes on "tree"
C12_Witness ==
    /\ handlers = <<"find_materials_handler">> /\ pc = "done"
    /\ decision.offset = 0
    /\ decision.course_code = sCode1202 /\ decision.topic = sTree
    /\ PhaseRows("strict") = {}
    /\ \E k \in Range(result.body) : db.materials[k].course_code = sCode2100

\* the match_score of the row at table position k for the handler's call
ScoreOf(k) == _score_expr(db.materials[k], HandlerSignals(decision))

\* C13: the items find_materials_handler returns come by match_score
\* descending, then by created_at in the requested direction, and rows equal
\* in both come in insertion order (the order of their table positions), so
\* that every repetition of the search returns the same sequence.
C13_RankedOrderStableTies ==
    handlers = <<"find_materials_handler">>
        => \A i, j \in DOMAIN result.body :
              i < j =>
                LET a == result.body[i]
                    b == result.body[j]
                    ra == db.materials[a]
                    rb == db.materials[b]
                IN  /\ ScoreOf(a) >= ScoreOf(b)
                    /\ ScoreOf(a) = ScoreOf(b)
                          => IF decision.sort_by = "newest"
                             THEN ra.created_at >= rb.created_at
                             ELSE ra.created_at <= rb.created_at
                    /\ (ScoreOf(a) = ScoreOf(b) /\ ra.created_at = rb.created_at) => a < b

\* C14: each course-code normalizer gives, for every spelling of one code
\* (any letter case; no separator, a space, an underscore or a hyphen), the
\* same upper-case LETTERS-DIGITS form, and gives its own output back when
\* applied to it.
C14_CourseCodeNormalizersAgree ==
    /\ decision.mode = "normalized"
          => /\ decision.a = raw.data.code[1] \o <<"-">> \o raw.data.code[2]
             /\ decision.b = decision.a
    /\ pc = "done" => result.body = <<decision.a>>

\* the required fields of a cover type: the twelve common ones, and
\* date_of_exp for a lab report
RequiredOf(cover_type) ==
    { "cover_type_no", "course_code", "course_title", "date_of_submission", "session",
      "teacher_name", "teacher_designation", "teacher_dept", "full_name", "roll_no",
      "dept", "series" }
    \cup (IF cover_type = "lab_report" THEN {"date_of_exp"} ELSE {})

\* a value of no characters or of blanks only
IsBlank(v) == \A i \in DOMAIN v : IsSpaceCh(v[i])

\* C15: the missing-field list of the cover-page pipeline is exactly the
\* required fields of the cover type whose merged value is blank, each once;
\* when only date_of_submission is blank it is [date_of_submission]; when it
\* is not empty the pipeline asks for those fields (or fails at the gateway)
\* and generates no document.
C15_MissingFieldsAreTheBlankRequired ==
    decision.mode = "cover"
        => LET blank == {k \in RequiredOf(decision.cover_type) : IsBlank(decision.payload[k])}
           IN  /\ Range(decision.missing) = blank
               /\ Len(decision.missing) = Cardinality(blank)
               /\ blank = {"date_of_submission"} => decision.missing = <<"date_of_submission">>
               /\ decision.missing # <<>>
                     => /\ \A i \in DOMAIN stages : stages[i] # "GENERATE"
                        /\ result.kind \in {"ask", "failure"}
                        /\ result.kind = "ask"
                              => (result.detail = "missing" /\ result.body = decision.missing)
                        /\ \E i \in DOMAIN llmCalls :
                              /\ llmCalls[i].prompt = "cover_missing"
                              /\ llmCalls[i].messages[1].body = decision.missing

\* C15 witness: a lab report whose extraction gave blanks for
\* date_of_submission only: the pipeline asked for exactly that field
C15_Witness ==
    /\ decision.mode = "cover" /\ pc = "done"
    /\ decision.cover_type = "lab_report"
    /\ raw.data["date_of_submission"] = sBlank
    /\ result = Result("ask", "missing", <<"date_of_submission">>)

\* the sheets in the student's scope for the extracted course code and CT
InScopeSheets ==
    {i \in DOMAIN db.sheets :
        /\ db.sheets[i].dept = actor.dept
        /\ db.sheets[i].series = actor.series
        /\ Truthy(actor.section) => db.sheets[i].section = actor.section
        /\ KeepAlnum(PyUpper(db.sheets[i].course_code)) = KeepAlnum(PyUpper(decision.course_code))
        /\ db.sheets[i].ct_no = decision.ct_no}

\* the entries of a sheet for the student's own roll number
OwnEntries(i) ==
    {j \in DOMAIN db.entries :
        /\ db.entries[j].result_sheet_id = db.sheets[i].id
        /\ db.entries[j].roll_no = KeepDigits(actor.roll_no)}

\* the lookups of the turn (check_marks)
Lookups == {i \in DOMAIN queries : queries[i].kind = "lookup"}

\* C16: when check_marks finds no sheet in scope, or a sheet without an entry
\* for the student's roll, the turn ends with the "no result sheet found" or
\* the "not available yet (or not published)" text as its result: not a
\* failure, and without an answer completion.
C16_NoSheetOrEntryIsAPlainReply ==
    (toolName = "check_marks" /\ pc = "done" /\ Lookups # {})
        => /\ InScopeSheets = {} => result = Result("answer", "no_sheet", <<>>)
           /\ (\A i \in InScopeSheets : OwnEntries(i) = {})
                 => /\ result.kind = "answer"
                    /\ result.detail \in {"no_sheet", "no_entry"}
                    /\ AnswerMessagesOf(llmCalls) = <<>>
           /\ \A q \in Lookups :
                 (queries[q].sheet # 0 /\ queries[q].entry = 0)
                     => result = Result("answer", "no_entry", <<>>)

\* C16 witness: a sheet of the student's section was found, without an entry
\* for the student's roll
C16_Witness ==
    /\ toolName = "check_marks" /\ pc = "done" /\ Lookups # {}
    /\ InScopeSheets # {}
    /\ \A i \in InScopeSheets : OwnEntries(i) = {}
    /\ Truthy(actor.section)
    /\ result = Result("answer", "no_entry", <<>>)


\* the extraction completion of the turn could not be parsed as JSON, the
\* pipeline's own recovery (brace scan, fence stripping) included
ExtractionUnparseable ==
    /\ raw # NoData
    /\ IF path = "run_tool_and_get_assistant_text"
       THEN ParseJsonRobust(raw.shape) = "raise"
       ELSE CASE toolName = "check_marks" ->
                    ~JsonLoads(raw.shape)
                    /\ LET opens == {i \in DOMAIN raw.shape : HasOpen(raw.shape[i])}
                           closes == {i \in DOMAIN raw.shape : HasClose(raw.shape[i])}
                       IN  \/ opens = {} \/ closes = {}
                           \/ ExtractJsonParse(raw.shape) = "raise"
              [] toolName = "generate_marksheet" -> ~JsonLoads(raw.shape)
              [] toolName = "generate_cover_page" -> CoverSafeParseJson(raw.shape) = "raise"
              [] OTHER -> FALSE

\* C17: a turn whose extraction output cannot be parsed as JSON, brace
\* scanning included, ends with a clarification ask: no exception reaches the
\* caller (the result is not a failure), and no content query and no
\* generation stage ran.
C17_ParseFailureEndsInAsk ==
    (pc = "done" /\ ExtractionUnparseable)
        => /\ result.kind = "ask"
           /\ queries = <<>>
           /\ "GENERATE" \notin Range(stages)


\* the extraction output of the turn parsed as JSON and the object handed to
\* model_validate violates the schema of the tool
ExtractionViolatesSchema ==
    /\ raw # NoData
    /\ IF path = "run_tool_and_get_assistant_text"
       THEN /\ ParseJsonRobust(raw.shape) = "ok"
            /\ model_validate(Sanitize(raw.data)) # "ok"
       ELSE /\ toolName = "check_marks"
            /\ ExtractJsonParse(raw.shape) = "ok"
            /\ ~CheckMarksValidates(raw.data)

\* C18: a find_materials or check_marks turn whose parsed extraction object
\* violates the schema ends with a clarification message as its result (an
\* ask or a wrong-tool reply, not a failure), and no content query and no
\* handler ran.
C18_SchemaViolationIsClarified ==
    (pc = "done" /\ ExtractionViolatesSchema)
        => /\ result.kind \in {"ask", "wrong_tool"}
           /\ queries = <<>>
           /\ "find_materials_handler" \notin Range(handlers)


\* C19: when the routing completion's text is not JSON, or its object is not
\* a valid RouteDecision, route_intent still returns a decision (the object
\* inside the text, or else the tool-query default) and the turn does not end
\* with the exception of the gate.
C19_RouterParseFailureFallsBack ==
    ( /\ path = "run_tool_and_get_assistant_text" /\ gate # NoGate
      /\ ~JsonLoads(gate.shape) \/ gate.intent \notin RouteIntents )
        => /\ gate.ok
           /\ result # Result("failure", "route_intent", <<>>)


\* C20: once a completion or an embedding call of the turn has failed, the
\* turn has failed: the call was made once (no prompt occurs twice among the
\* turn's completions), nothing runs after it (no further completion, query,
\* handler or stage, the outcome stays the failure), and the endpoint stores
\* no assistant message.
C20_GatewayFailureFailsTheTurn ==
    [][ (result.kind = "failure" /\ result.detail \in {"gateway", "embedding"})
            => /\ \A i, j \in DOMAIN llmCalls :
                     llmCalls[i].prompt = llmCalls[j].prompt => i = j
               /\ llmCalls' = llmCalls /\ queries' = queries
               /\ handlers' = handlers /\ stages' = stages
               /\ result' = result
               /\ assistant_msg = NoMessage /\ assistant_msg' = NoMessage ]_vars

\* C20 witness: the answer completion of a turn failed after the retrieval
\* query had run, and the endpoint answered without storing a message
C20_Witness ==
    /\ pc = "sent"
    /\ result = Result("failure", "gateway", <<>>)
    /\ queries # <<>> /\ Len(llmCalls) >= 2
    /\ assistant_msg = NoMessage


\* C21: whenever some row in the scope of the handler's call satisfies the
\* strict predicates, find_materials_handler runs the strict query only and
\* every item it returns satisfies the strict predicates, whatever limit and
\* offset the decision carries.
C21_BroadOnlyWhenStrictMatchesNothing ==
    ( /\ handlers = <<"find_materials_handler">>
      /\ PhaseRows("strict") # {} )
        => /\ \A i \in DOMAIN queries : queries[i].kind # "broad"
           /\ Range(result.body) \subseteq PhaseRows("strict")


\* how the course_code of a scored row matches the requested code
CodeMatch(row, f) ==
    IF ~Truthy(f.course_code) THEN "none"
    ELSE IF row.course_code = f.course_code THEN "exact"
    ELSE IF Ilike(row.course_code, f.course_code) THEN "partial"
    ELSE "none"

\* the row matches the request on course_name, topic or written_by
TextMatch(row, f) ==
    \/ Truthy(f.course_name) /\ Ilike(row.course_name, f.course_name)
    \/ Truthy(f.topic) /\ Ilike(row.topic, f.topic)
    \/ Truthy(f.written_by) /\ Ilike(row.written_by, f.written_by)

StringNumbers ==
    IF raw = NoData THEN {}
    ELSE IF path = "run_tool_and_get_assistant_text" /\ ParseJsonRobust(raw.shape) = "ok"
    THEN {jv \in {raw.data.ct_no, raw.data.year} : jv.t = "str"}
    ELSE IF path = "run_tool_chat" /\ toolName = "check_marks"
            /\ ExtractJsonParse(raw.shape) = "ok"
    THEN {jv \in {raw.data.ct_no} : jv.t = "str"}
    ELSE {}

\* C23: a turn whose extraction gave ct_no or year as a string that is not
\* all digits ends with a clarification ask, without a query and without an
\* error; a string of digits that reaches the decision is there as its integer.
C23_StringNumberCoercedOrReask ==
    pc = "done"
        => /\ (\E jv \in StringNumbers : ~PyIsDigit(PyStrip(jv.v)))
                => (result.kind = "ask" /\ queries = <<>>)
           /\ ( /\ StringNumbers # {}
                /\ raw.data.ct_no \in StringNumbers
                /\ PyIsDigit(PyStrip(raw.data.ct_no.v))
                /\ decision # NoDecision /\ decision.mode \in {"query", "ok"} )
                => decision.ct_no = PyInt(PyStrip(raw.data.ct_no.v))


\* C24: no two document-generation runs get the same file name, and the file
\* a run's reply names is the one that run wrote.
C24_FreshFilenamePerRun ==
    path = "generate_document"
        => \A r1, r2 \in DOMAIN requests :
              (requests[r1].pc = "replied" /\ requests[r2].pc = "replied" /\ r1 # r2)
                 => /\ requests[r1].filename # requests[r2].filename
                    /\ files[requests[r1].filename] = r1


\* C25: of two messages sent to one room, the later one's pipeline reads a
\* history holding the earlier user message and its assistant reply, and in the
\* stored transcript each answered user message is directly followed by its own
\* reply.
C25_RoomTurnsAreSerialised ==
    path = "chat_router"
        => \A r1, r2 \in DOMAIN requests :
              (/\ requests[r1].kind = "send" /\ requests[r2].kind = "send"
               /\ requests[r1].room_id = requests[r2].room_id
               /\ requests[r1].stored_at # 0
               /\ requests[r1].stored_at < requests[r2].stored_at)
                 => /\ (requests[r2].pc \in {"fetched", "done"} /\ requests[r1].status # 500)
                          => /\ \E i \in DOMAIN requests[r2].history :
                                   requests[r2].history[i].created_at = requests[r1].stored_at
                             /\ requests[r1].replied_at # 0
                             /\ \E i \in DOMAIN requests[r2].history :
                                   requests[r2].history[i].created_at = requests[r1].replied_at
                    /\ requests[r1].status = 201
                          => ~ \E i \in DOMAIN msgTable :
                                   /\ msgTable[i].chat_room_id = requests[r1].room_id
                                   /\ msgTable[i].created_at > requests[r1].stored_at
                                   /\ msgTable[i].created_at < requests[r1].replied_at


\* the handler names a tool name is registered with
HandlersRegisteredAs(name) ==
    IF name = "find_materials" THEN {"find_materials", "find_materials_handler"} ELSE {name}

\* C26: every handler a turn runs is the one registered under the caller's
\* tool name, a student or CR turn never runs generate_marksheet, and a turn
\* that fails on an unregistered tool name has run no handler.
C26_HandlerIsTheCallersTool ==
    path \in EntryPoints
        => /\ \A i \in DOMAIN handlers :
                 /\ handlers[i] \in HandlersRegisteredAs(toolName)
                 /\ actor.role \in {"student", "cr"} => handlers[i] # "generate_marksheet"
           /\ (result.kind = "failure" /\ result.detail = "unknown_tool") => handlers = <<>>


\* C27: when a sheet of the student's scope for the extracted course and CT
\* holds an entry for the student's roll, check_marks finds such an entry and
\* does not reply "no sheet" or "not available", with or without a section in
\* the profile.
C27_EntryInAnyScopedSheetIsFound ==
    (toolName = "check_marks" /\ pc = "done" /\ Lookups # {}
        /\ \E i \in InScopeSheets : OwnEntries(i) # {})
        => /\ result.detail \notin {"no_sheet", "no_entry"}
           /\ \A q \in Lookups :
                 /\ queries[q].sheet \in InScopeSheets
                 /\ queries[q].entry \in OwnEntries(queries[q].sheet)


\* C28: the full_name, roll_no, dept, section and series of a cover payload are
\* those the profile gives with any other extraction output: no key of the
\* extraction, its own name, roll, dept, section or series included, changes
\* them.
C28_CoverIdentityFromProfileAlone ==
    (toolName = "generate_cover_page" /\ decision # NoDecision /\ decision.mode = "cover")
        => \A k \in CoverProfileKeys :
              /\ \A d \in CoverDatas :
                    _merge(get_student_profile_context(actor), d)[k] = decision.payload[k]
              /\ (result.kind = "answer" /\ result.detail = "pdf")
                    => result.body[1][k] = decision.payload[k]

\* C28 witness: a cover is generated from an extraction that carries its own
\* name, roll, dept, section and series, with the profile's values
C28_Witness ==
    /\ toolName = "generate_cover_page" /\ pc = "done"
    /\ actor.id = "s1"
    /\ raw.data = CoverForged
    /\ result.kind = "answer" /\ result.detail = "pdf"
    /\ result.body[1]["full_name"] = sRafin
    /\ result.body[1]["roll_no"] = sRoll1
    /\ result.body[1]["section"] = sA


\* the room a request names is owned by its caller, in the caller's role
OwnsRoom(req) ==
    \E room \in rooms :
        /\ room.id = req.room_id
        /\ room.owner_role = req.caller.role
        /\ (req.caller.role = "student" => room.owner_student_id = req.caller.id)
        /\ (req.caller.role = "cr" => room.owner_cr_id = req.caller.id)
        /\ (req.caller.role = "teacher" => room.owner_teacher_id = req.caller.id)

\* the messages of a sequence are of one room and ascend in creation time
OneRoomAscending(msgs, room_id) ==
    /\ \A i \in DOMAIN msgs : msgs[i].chat_room_id = room_id
    /\ \A i, j \in DOMAIN msgs : i < j => msgs[i].created_at < msgs[j].created_at

\* C29: a request stores a message or gets a room's messages only for a room
\* its caller owns in the caller's role, any other request ends with 404 and
\* changes no table, and the history a pipeline gets is the most recent (at
\* most 6) messages of that one room in ascending creation order.
C29_RoomsAreOwnersOnly ==
    [][path = "chat_router" =>
        \A r \in DOMAIN requests :
            LET old == requests[r]
                new == requests'[r]
                mine == {i \in DOMAIN msgTable : msgTable[i].chat_room_id = old.room_id}
            IN  old # new =>
                  /\ (old.pc = "new" /\ ~OwnsRoom(old))
                        => /\ new.status = 404 /\ new.pc = "done"
                           /\ msgTable' = msgTable /\ rooms' = rooms
                  /\ new.status = 404 => ~OwnsRoom(old)
                  /\ msgTable' # msgTable
                        => /\ OwnsRoom(old)
                           /\ msgTable' = Append(msgTable, msgTable'[Len(msgTable')])
                           /\ msgTable'[Len(msgTable')].chat_room_id = old.room_id
                  /\ new.status = 200
                        => /\ OwnsRoom(old)
                           /\ OneRoomAscending(new.reply, old.room_id)
                           /\ Len(new.reply) = Cardinality(mine)
                  /\ new.pc = "fetched"
                        => /\ OwnsRoom(old)
                           /\ OneRoomAscending(new.history, old.room_id)
                           /\ Len(new.history) = Min(6, Cardinality(mine))
                           /\ \A i \in mine :
                                 \/ \E k \in DOMAIN new.history : new.history[k] = msgTable[i]
                                 \/ \A k \in DOMAIN new.history :
                                       msgTable[i].created_at < new.history[k].created_at
    ]_vars

\* C29 witness: a request for another user's room ended with 404, and the
\* owner's pipeline got 6 of the 7 messages of a room, with another room's
\* messages in the table
C29_Witness ==
    /\ path = "chat_router"
    /\ \E r1, r2 \in DOMAIN requests :
          /\ requests[r1].status = 404 /\ ~OwnsRoom(requests[r1])
          /\ requests[r1].room_id = requests[r2].room_id
          /\ requests[r2].pc = "fetched" /\ OwnsRoom(requests[r2])
          /\ Len(requests[r2].history) = 6
          /\ Cardinality({i \in DOMAIN msgTable :
                             msgTable[i].chat_room_id = requests[r2].room_id}) = 7
          /\ \E i \in DOMAIN msgTable : msgTable[i].chat_room_id # requests[r2].room_id


\* no two stored sheets of one teacher have the same dept, section, series,
\* course_code and ct_no
NoDuplicateSheets(sheets) ==
    \A i, j \in DOMAIN sheets :
        (/\ i # j
         /\ sheets[i].created_by_teacher_id = sheets[j].created_by_teacher_id
         /\ sheets[i].dept = sheets[j].dept
         /\ sheets[i].section = sheets[j].section
         /\ sheets[i].series = sheets[j].series
         /\ sheets[i].course_code = sheets[j].course_code)
            => sheets[i].ct_no # sheets[j].ct_no

\* C30: whatever create and update requests ran, overlapping ones included,
\* the stored sheets of a teacher differ in (dept, section, series,
\* course_code, ct_no), and a request answered with 409 changed no sheet.
C30_SheetsStayUnique ==
    [][path = "result_sheets" =>
          /\ NoDuplicateSheets(db.sheets')
          /\ \A r \in DOMAIN requests :
                (requests'[r].status = 409 /\ requests[r].status # 409) => db' = db
    ]_vars

====
